---- MODULE Spec2Model ----
(***************************************************************************)
(* Verification model of the Pashto dubbing pipeline.                      *)
(*                                                                         *)
(* A caller invokes one operation of the program at a time:                *)
(*   run              VideoDubPipeline.run               (src/pipeline.py) *)
(*   tts              PashtoTTSService._synthesize_to_wav                  *)
(*   segments         PashtoTTSService.synthesize_segments                 *)
(*   translate        SeamlessTranslator.translate_audio                   *)
(*   lipsync          Wav2LipRunner.run_lip_sync                           *)
(*   cmd              run_command                          (src/utils.py)  *)
(*   fn               a pure function, applied to one input                *)
(* while another thread may set the shared cancellation token at any time  *)
(* (VideoDubPipeline.request_cancel, DubbingGui._cancel_current).          *)
(* This is the specification Spec.  The job queue of the GUI, with its UI  *)
(* thread and its worker thread (src/gui.py), is the specification GuiSpec.*)
(***************************************************************************)
EXTENDS Integers, Sequences, FiniteSets, TLC

(***************************************************************************)
(* Bounds of the model.                                                    *)
(***************************************************************************)
MaxProxies == 2       \* proxy candidates tried by the TTS retry matrix
MaxChunks  == 52      \* translation chunks of the longest modelled source

VARIABLES
    op,              \* operation in progress, "idle" when there is none
    pc,              \* position inside the operation
    cancel_event,    \* threading.Event.is_set() of the shared token
    env,             \* the input and the collaborators' behaviour for this call
    outcome,         \* "none" while running, then "done" | "cancelled" | "failed"
    error,           \* type of the exception that reached the caller ("none" if none)
    observed,        \* a checkpoint or a polling loop has seen the token set
    job_dir,         \* the job directory exists on disk
    files,           \* files that exist under the job directory
    log_file,        \* lines of <job_dir>/pipeline.log
    progress_log,    \* values handed to the progress callback, in call order
    stages,          \* orchestrator states whose work was started, in order
    final_video,     \* run's local final_video ("none" until it is assigned)
    results,         \* number of PipelineResult objects returned
    lipsync_calls,   \* invocations of the lip-sync backend process
    mux_calls,       \* invocations of the audio/video mux process
    tts,             \* locals and effects of _synthesize_to_wav
    tr,              \* locals of translate_audio
    proc,            \* run_command's child process, its output queue and its end
    call,            \* the call of a function in progress or last made
    gui              \* DubbingGui: the job list, the flags and the worker thread

vars == <<op, pc, cancel_event, env, outcome, error, observed, job_dir, files,
          log_file, progress_log, stages, final_video, results, lipsync_calls,
          mux_calls, tts, tr, proc, call, gui>>

runVars == <<job_dir, files, log_file, stages, final_video, results,
             lipsync_calls, mux_calls, gui>>

(***************************************************************************)
(* Progress values are exact fractions n/d.                                *)
(***************************************************************************)
Frac(n, d) == [n |-> n, d |-> d]
FracLeq(a, b) == a.n * b.d <= b.n * a.d
FracInUnit(a) == a.n >= 0 /\ a.n <= a.d

\* pipeline.py:111  lambda p, m: progress(0.12 + 0.43 * p, m)
TranslateStageProgress(p) == Frac(12 * p.d + 43 * p.n, 100 * p.d)

TtsIdle == [idx |-> 0, attempts |-> <<>>, last_exc |-> "none", made |-> 0,
            probed |-> FALSE, spawned |-> FALSE, tried |-> <<>>,
            delays |-> <<>>, clip |-> "none"]
TrIdle  == [idx |-> 0, chunk_count |-> 0, segments |-> <<>>, log |-> <<>>]
ProcIdle == [child |-> "none", subs |-> "none", queue |-> <<>>, to_emit |-> 0,
             written |-> <<>>, logged |-> <<>>, at_cancel |-> "none",
             message |-> <<>>]
NoCall == [fn |-> "none"]

\* gui.py:59-66  DubbingGui after construction.  cancel_event is "None" or
\* the state of the current job's threading.Event (current_pipeline is set
\* and cleared with it); alive counts the worker threads that have not
\* returned; pc and idx are the position of _worker_main; dialog tells that
\* the confirmation dialog of _cancel_current is open; confirmed records
\* that the user confirmed it while worker_running was set, during the
\* present run of the worker.
GuiIdle == [jobs |-> <<>>, alive |-> 0, worker_running |-> FALSE,
            queue_stop_requested |-> FALSE, cancel_event |-> "None",
            pc |-> "none", idx |-> 0, dialog |-> FALSE, confirmed |-> FALSE]

(***************************************************************************)
(* Python call binding: a call binds iff every keyword it passes is a      *)
(* parameter of the callee; otherwise the call raises TypeError before the *)
(* callee's body runs.                                                     *)
(***************************************************************************)
CallBinds(keywords, params) == keywords \subseteq params

\* Signatures of the callees, as defined.
extract_mono_wav_params == {"video_path", "out_wav", "sample_rate", "log_fn"}
time_stretch_audio_to_target_params ==
    {"input_wav", "output_wav", "target_duration_s", "tolerance_s", "log_fn"}
mux_audio_with_video_params ==
    {"input_video", "input_audio_wav", "output_video", "log_fn"}
translate_audio_params == {"source_wav", "output_srt", "output_text", "progress_fn"}
synthesize_segments_params == {"segments", "out_wav", "temp_dir", "cancel_event"}
run_lip_sync_params ==
    {"input_video", "input_audio", "output_video", "device_policy", "dominant_box"}

\* Keywords passed at the call sites of VideoDubPipeline.run.
ExtractCallKeywords   == {"sample_rate", "log_fn", "cancel_event"}
TranslateCallKeywords ==
    {"source_wav", "output_srt", "output_text", "progress_fn", "cancel_event"}
SynthesizeCallKeywords == {"cancel_event"}
StretchCallKeywords   == {"log_fn", "cancel_event"}
LipSyncCallKeywords   ==
    {"input_video", "input_audio", "output_video", "device_policy",
     "dominant_box", "cancel_event"}
MuxCallKeywords       == {"log_fn", "cancel_event"}

(***************************************************************************)
(* Inputs of run: the source video and what each collaborator does with it.*)
(***************************************************************************)
\* An audio clip as the silence test sees it: sample count, peak and RMS
\* amplitude in units of 1e-4.
Clips == { [size |-> 0, peak |-> 0,  rms |-> 0],
           [size |-> 1, peak |-> 20, rms |-> 5],
           [size |-> 1, peak |-> 20, rms |-> 10],
           [size |-> 1, peak |-> 40, rms |-> 5],
           [size |-> 1, peak |-> 40, rms |-> 10] }

\* tts_service.py:35-41  _is_near_silent
is_near_silent(clip) ==
    IF clip.size = 0 THEN TRUE ELSE clip.peak < 30 \/ clip.rms < 8

\* Face and speech ratios in percent.
FaceRatios   == {94, 95}
SpeechRatios == {9, 10}

\* Mutant of evaluate_lipsync_gate: the speech test comes first.
evaluate_lipsync_gate_speech_first(face_ratio, speech_ratio) ==
    IF speech_ratio < 10
    THEN [should_lipsync |-> FALSE, reason |-> "speech"]
    ELSE IF face_ratio < 95
         THEN [should_lipsync |-> FALSE, reason |-> "face"]
         ELSE [should_lipsync |-> TRUE, reason |-> "passed"]

\* speaker_gate.py:88-112  the decision rule of evaluate_lipsync_gate
evaluate_lipsync_gate(face_ratio, speech_ratio) ==
    IF face_ratio < 95
    THEN [should_lipsync |-> FALSE, reason |-> "face"]
    ELSE IF speech_ratio < 10
         THEN [should_lipsync |-> FALSE, reason |-> "speech"]
         ELSE [should_lipsync |-> TRUE, reason |-> "passed"]

\* The collaborator call that fails on its own in this run, if any.
Faults == {"none", "extract", "probe", "translate", "tts", "align", "gate", "mux"}

RunEnvs == [ exists : BOOLEAN, fail : Faults, chunks : {0, 1, 3},
             synced_clip : Clips, face_ratio : FaceRatios,
             speech_ratio : SpeechRatios, lipsync_ok : BOOLEAN ]

NoEnv == [kind |-> "none"]

(***************************************************************************)
(* translate_audio's progress values (seamless_service.py:314, 367, 371).  *)
(***************************************************************************)
Max2(a, b) == IF a >= b THEN a ELSE b

ChunkProgress(idx, chunk_count) == Frac(idx - 1, Max2(1, chunk_count))

TranslateProgress(chunk_count) ==
    [i \in 1..chunk_count |-> ChunkProgress(i, chunk_count)]
        \o <<Frac(98, 100), Frac(1, 1)>>

(***************************************************************************)
(* VideoDubPipeline.run, one step per orchestrator state.  A step yields    *)
(* what the state's code did before it finished or raised.                 *)
(***************************************************************************)
RunStates == {"ExtractAudio", "ProbeDuration", "VoiceProfileHint", "Translate",
              "Synthesize", "AlignDuration", "GateDecision", "LipSync",
              "FallbackMux", "FallbackMuxAfterLipSync", "Finalize"}

\* The orchestrator state a position belongs to.
StateOf(p) == IF p = "FallbackMuxAfterLipSync" THEN "FallbackMux" ELSE p

Step0 == [exc |-> "none", next |-> "end", entered |-> TRUE, sees |-> FALSE,
          in_try |-> TRUE, mkdir |-> FALSE, progress |-> <<>>, logs |-> <<>>, writes |-> {},
          video |-> "keep", lipsync |-> 0, mux |-> 0]

\* pipeline.py:48-50  _ensure_not_cancelled, as the first thing of a state
CancelledOnEntry ==
    [Step0 EXCEPT !.exc = "PipelineCancelledError", !.entered = FALSE, !.sees = TRUE]

\* Mutant of ExtractAudioStep: the job directory is created before the
\* checkpoint of line 63 instead of after it.
ExtractAudioStepMkdirFirst ==
    IF cancel_event
    THEN {[CancelledOnEntry EXCEPT !.in_try = FALSE, !.mkdir = TRUE]}
    ELSE {[Step0 EXCEPT !.mkdir = TRUE, !.progress = <<Frac(3, 100)>>,
                        !.logs = <<"Input video">>, !.exc = "TypeError"]}

\* Mutant of ExtractAudioStep: line 63 is missing, the token is first seen
\* inside the try block.
ExtractAudioStepWithoutCheckpoint ==
    LET pre == [Step0 EXCEPT !.mkdir = TRUE, !.progress = <<Frac(3, 100)>>,
                             !.logs = <<"Input video">>]
    IN IF cancel_event
       THEN {[pre EXCEPT !.exc = "PipelineCancelledError", !.sees = TRUE]}
       ELSE {[pre EXCEPT !.exc = "TypeError"]}

\* pipeline.py:63-95 (ffmpeg_utils.py:13-29).  The checkpoint of line 63 is
\* outside the try block; the job directory is created after it (65-68).
ExtractAudioStep ==
    IF cancel_event THEN {[CancelledOnEntry EXCEPT !.in_try = FALSE]}
    ELSE LET pre == [Step0 EXCEPT !.mkdir = TRUE, !.progress = <<Frac(3, 100)>>,
                                  !.logs = <<"Input video">>]
         IN  IF ~CallBinds(ExtractCallKeywords, extract_mono_wav_params)
             THEN {[pre EXCEPT !.exc = "TypeError"]}
             ELSE IF env.fail = "extract"
                  THEN {[pre EXCEPT !.exc = "RuntimeError"]}
                  ELSE {[pre EXCEPT !.writes = {"temp/source_16k.wav"},
                                    !.next = "ProbeDuration"]}

\* pipeline.py:96-98 (ffmpeg_utils.py:32-46)
ProbeDurationStep ==
    IF cancel_event THEN {CancelledOnEntry}
    ELSE IF env.fail = "probe"
         THEN {[Step0 EXCEPT !.exc = "CalledProcessError"]}
         ELSE {[Step0 EXCEPT !.logs = <<"Video duration">>,
                             !.next = "VoiceProfileHint"]}

\* pipeline.py:99-104
VoiceProfileHintStep ==
    {[Step0 EXCEPT !.logs = <<"Voice profile selected from source">>,
                   !.next = "Translate"]}

\* pipeline.py:106-114 (seamless_service.py:273-379)
TranslateStep ==
    LET pre == [Step0 EXCEPT !.progress = <<Frac(12, 100)>>]
    IN  IF ~CallBinds(TranslateCallKeywords, translate_audio_params)
        THEN {[pre EXCEPT !.exc = "TypeError"]}
        ELSE IF env.fail = "translate" \/ env.chunks = 0
             THEN {[pre EXCEPT !.exc = "RuntimeError"]}
             ELSE {[pre EXCEPT
                      !.progress = pre.progress \o
                          [i \in 1..(env.chunks + 2) |->
                              TranslateStageProgress(TranslateProgress(env.chunks)[i])],
                      !.writes = {"pashto_translation.srt", "pashto_translation.txt"},
                      !.logs = <<"Translated chunks">>,
                      !.next = "Synthesize"]}

\* pipeline.py:115-123 (tts_service.py:207-248)
SynthesizeStep ==
    IF cancel_event THEN {CancelledOnEntry}
    ELSE LET pre == [Step0 EXCEPT !.progress = <<Frac(56, 100)>>]
         IN  IF ~CallBinds(SynthesizeCallKeywords, synthesize_segments_params)
             THEN {[pre EXCEPT !.exc = "TypeError"]}
             ELSE IF env.fail = "tts"
                  THEN {[pre EXCEPT !.exc = "RuntimeError"]}
                  ELSE LET raw == [pre EXCEPT !.writes = {"temp/tts_chunks/tts_raw_0001.wav"}]
                       IN  \* tts_service.py:224
                           IF ~CallBinds(StretchCallKeywords,
                                         time_stretch_audio_to_target_params)
                           THEN {[raw EXCEPT !.exc = "TypeError"]}
                           ELSE {[raw EXCEPT
                                    !.writes = raw.writes \cup
                                        {"temp/tts_chunks/tts_fit_0001.wav",
                                         "temp/pashto_raw.wav"},
                                    !.next = "AlignDuration"]}

\* pipeline.py:124-141 (ffmpeg_utils.py:64-100)
AlignDurationStep ==
    IF cancel_event THEN {CancelledOnEntry}
    ELSE LET pre == [Step0 EXCEPT !.progress = <<Frac(72, 100)>>]
         IN  IF ~CallBinds(StretchCallKeywords, time_stretch_audio_to_target_params)
             THEN {[pre EXCEPT !.exc = "TypeError"]}
             ELSE IF env.fail = "align"
                  THEN {[pre EXCEPT !.exc = "RuntimeError"]}
                  ELSE LET done == [pre EXCEPT !.writes = {"temp/pashto_synced.wav"},
                                               !.logs = <<"Audio duration adjusted">>]
                       IN  IF is_near_silent(env.synced_clip)
                           THEN {[done EXCEPT !.exc = "RuntimeError"]}
                           ELSE {[done EXCEPT !.next = "GateDecision"]}

\* pipeline.py:143-148, 150 (speaker_gate.py:83-112)
GateDecisionStep ==
    LET pre == [Step0 EXCEPT !.video = "lipsync"]
    IN  IF env.fail = "gate"
        THEN {[pre EXCEPT !.exc = "RuntimeError"]}
        ELSE LET gate == evaluate_lipsync_gate(env.face_ratio, env.speech_ratio)
             IN  {[pre EXCEPT !.logs = <<"Lip-sync gate">>,
                              !.next = IF gate.should_lipsync THEN "LipSync"
                                       ELSE "FallbackMux"]}

\* pipeline.py:149-164 (wav2lip_service.py:37-98)
LipSyncStep ==
    IF cancel_event THEN {CancelledOnEntry}
    ELSE LET pre == [Step0 EXCEPT !.progress = <<Frac(78, 100)>>]
             failed == [pre EXCEPT !.logs = <<"Lip-sync failed after retries">>,
                                   !.next = "FallbackMuxAfterLipSync"]
         IN  IF ~CallBinds(LipSyncCallKeywords, run_lip_sync_params)
             THEN {failed}                       \* TypeError, caught at line 163
             ELSE IF env.lipsync_ok
                  THEN {[pre EXCEPT !.lipsync = 1, !.writes = {"lipsync.mp4"},
                                    !.next = "Finalize"]}
                  ELSE {[failed EXCEPT !.lipsync = 3]}

\* pipeline.py:165-172 and 174-182 (ffmpeg_utils.py:103-128)
MuxStep(pre) ==
    IF ~CallBinds(MuxCallKeywords, mux_audio_with_video_params)
    THEN {[pre EXCEPT !.exc = "TypeError"]}
    ELSE IF env.fail = "mux"
         THEN {[pre EXCEPT !.exc = "RuntimeError", !.mux = 1]}
         ELSE {[pre EXCEPT !.mux = 1, !.writes = {"dubbed.mp4"},
                           !.video = "fallback", !.next = "Finalize"]}

\* pipeline.py:149, 173-182
FallbackMuxStep ==
    IF cancel_event THEN {CancelledOnEntry}
    ELSE MuxStep([Step0 EXCEPT !.logs = <<"Skipping lip-sync">>])

\* pipeline.py:163-172
FallbackMuxAfterLipSyncStep == MuxStep(Step0)

\* pipeline.py:184-194
FinalizeStep ==
    {[Step0 EXCEPT !.progress = <<Frac(1, 1)>>, !.logs = <<"Final video">>,
                   !.next = "end"]}

StepOf(p) ==
    CASE p = "ExtractAudio"            -> ExtractAudioStep
      [] p = "ProbeDuration"           -> ProbeDurationStep
      [] p = "VoiceProfileHint"        -> VoiceProfileHintStep
      [] p = "Translate"               -> TranslateStep
      [] p = "Synthesize"              -> SynthesizeStep
      [] p = "AlignDuration"           -> AlignDurationStep
      [] p = "GateDecision"            -> GateDecisionStep
      [] p = "LipSync"                 -> LipSyncStep
      [] p = "FallbackMux"             -> FallbackMuxStep
      [] p = "FallbackMuxAfterLipSync" -> FallbackMuxAfterLipSyncStep
      [] p = "Finalize"                -> FinalizeStep

(***************************************************************************)
(* The state after construction: nothing has been called.                  *)
(***************************************************************************)
Init ==
    /\ op = "idle" /\ pc = "idle" /\ cancel_event = FALSE /\ env = NoEnv
    /\ outcome = "none" /\ error = "none" /\ observed = FALSE
    /\ job_dir = FALSE /\ files = {} /\ log_file = <<>> /\ progress_log = <<>>
    /\ stages = <<>> /\ final_video = "none" /\ results = 0
    /\ lipsync_calls = 0 /\ mux_calls = 0
    /\ tts = TtsIdle /\ tr = TrIdle /\ proc = ProcIdle /\ call = NoCall
    /\ gui = GuiIdle

\* pipeline.py:45-46  request_cancel, from any other thread, at any time
RequestCancel ==
    /\ ~cancel_event /\ outcome = "none"
    /\ cancel_event' = TRUE
    /\ UNCHANGED <<op, pc, env, outcome, error, observed, progress_log, tts, tr>>
    /\ UNCHANGED runVars /\ UNCHANGED <<proc, call>>

\* The caller starts run(input_video, output_root, progress_fn).
CallRun ==
    /\ op = "idle"
    /\ \E e \in RunEnvs : env' = e
    /\ op' = "run" /\ pc' = "begin"
    /\ UNCHANGED <<cancel_event, outcome, error, observed, progress_log, tts, tr>>
    /\ UNCHANGED runVars /\ UNCHANGED <<proc, call>>

\* Mutant of RunBegin: the job directory is made before the input is
\* looked at.
RunBeginMakesJobDirFirst ==
    /\ op = "run" /\ pc = "begin"
    /\ job_dir' = TRUE
    /\ IF env.exists
       THEN /\ pc' = "ExtractAudio"
            /\ UNCHANGED <<outcome, error>>
       ELSE /\ pc' = "end"
            /\ outcome' = "failed" /\ error' = "FileNotFoundError"
    /\ UNCHANGED <<op, cancel_event, env, observed, progress_log, tts, tr>>
    /\ UNCHANGED <<files, log_file, stages, final_video, results,
                   lipsync_calls, mux_calls>>
    /\ UNCHANGED <<proc, call, gui>>

\* Mutant of RunBegin: the first state is skipped.
RunBeginSkipsExtract ==
    /\ op = "run" /\ pc = "begin"
    /\ IF env.exists
       THEN /\ pc' = "ProbeDuration"
            /\ UNCHANGED <<outcome, error>>
       ELSE /\ pc' = "end"
            /\ outcome' = "failed" /\ error' = "FileNotFoundError"
    /\ UNCHANGED <<op, cancel_event, env, observed, progress_log, tts, tr>>
    /\ UNCHANGED runVars /\ UNCHANGED <<proc, call>>

\* pipeline.py:52-62  a missing input raises before the try block
RunBegin ==
    /\ op = "run" /\ pc = "begin"
    /\ IF env.exists
       THEN /\ pc' = "ExtractAudio"
            /\ UNCHANGED <<outcome, error>>
       ELSE /\ pc' = "end"
            /\ outcome' = "failed" /\ error' = "FileNotFoundError"
    /\ UNCHANGED <<op, cancel_event, env, observed, progress_log, tts, tr>>
    /\ UNCHANGED runVars /\ UNCHANGED <<proc, call>>

\* pipeline.py:195-199  except PipelineCancelledError: rmtree(job_dir); raise
CancelledHandler(r) ==
    /\ outcome' = "cancelled" /\ error' = "PipelineCancelledError"
    /\ job_dir' = FALSE /\ files' = {} /\ log_file' = <<>>
    /\ UNCHANGED results

\* Mutant of FailureHandler: a failure cleans up like a cancellation.
FailureHandlerCleansUp(r) ==
    /\ outcome' = "failed" /\ error' = r.exc
    /\ job_dir' = FALSE /\ files' = {} /\ log_file' = <<>>
    /\ UNCHANGED results

\* pipeline.py:200-203  except Exception: _log(message); _log(traceback); raise
FailureHandler(r) ==
    /\ outcome' = "failed" /\ error' = r.exc
    /\ job_dir' = (job_dir \/ r.mkdir)
    /\ log_file' = log_file \o r.logs \o <<"Pipeline failed", "Traceback">>
    /\ files' = files \cup r.writes \cup {"pipeline.log"}
    /\ UNCHANGED results

\* pipeline.py:63  an exception raised outside the try block reaches the
\* caller with no handler run.
Uncaught(r) ==
    /\ outcome' = IF r.exc = "PipelineCancelledError" THEN "cancelled" ELSE "failed"
    /\ error' = r.exc
    /\ job_dir' = (job_dir \/ r.mkdir)
    /\ UNCHANGED <<files, log_file, results>>

\* The state's code ran to its end.
Continue(r) ==
    /\ outcome' = IF r.next = "end" THEN "done" ELSE "none"
    /\ UNCHANGED error
    /\ job_dir' = (job_dir \/ r.mkdir)
    /\ log_file' = log_file \o r.logs
    /\ files' = files \cup r.writes
                  \cup (IF r.logs # <<>> THEN {"pipeline.log"} ELSE {})
    /\ results' = IF r.next = "end" THEN results + 1 ELSE results

\* pipeline.py:63-203  one orchestrator state, with the handler it ends in
RunStage ==
    /\ op = "run" /\ pc \in RunStates /\ outcome = "none"
    /\ \E r \in StepOf(pc) :
         /\ stages' = IF r.entered THEN Append(stages, StateOf(pc)) ELSE stages
         /\ progress_log' = progress_log \o r.progress
         /\ observed' = (observed \/ r.sees)
         /\ lipsync_calls' = lipsync_calls + r.lipsync
         /\ mux_calls' = mux_calls + r.mux
         /\ final_video' = IF r.video = "keep" THEN final_video ELSE r.video
         /\ pc' = IF r.exc = "none" THEN r.next ELSE "end"
         /\ CASE r.exc = "none" -> Continue(r)
              [] r.exc # "none" /\ ~r.in_try -> Uncaught(r)
              [] r.exc = "PipelineCancelledError" /\ r.in_try -> CancelledHandler(r)
              [] OTHER -> FailureHandler(r)
    /\ UNCHANGED <<op, cancel_event, env, tts, tr, proc, call, gui>>

\* The caller is done with the result; the next call gets a fresh pipeline
\* object and a fresh token (gui.py:523-524).
Reset ==
    /\ outcome # "none"
    /\ op' = "idle" /\ pc' = "idle" /\ cancel_event' = FALSE /\ env' = NoEnv
    /\ outcome' = "none" /\ error' = "none" /\ observed' = FALSE
    /\ job_dir' = FALSE /\ files' = {} /\ log_file' = <<>> /\ progress_log' = <<>>
    /\ stages' = <<>> /\ final_video' = "none" /\ results' = 0
    /\ lipsync_calls' = 0 /\ mux_calls' = 0
    /\ tts' = TtsIdle /\ tr' = TrIdle /\ proc' = ProcIdle /\ call' = NoCall
    /\ UNCHANGED gui

(***************************************************************************)
(* Whitespace handling of str.strip, str.split and re.sub(r"\s+", " ")     *)
(* on texts given as sequences of characters.                              *)
(***************************************************************************)
IsSpace(c) == c = " "

RECURSIVE LStrip(_)
LStrip(s) ==
    IF s = <<>> THEN s
    ELSE IF IsSpace(Head(s)) THEN LStrip(Tail(s)) ELSE s

RECURSIVE RStrip(_)
RStrip(s) ==
    IF s = <<>> THEN s
    ELSE IF IsSpace(s[Len(s)]) THEN RStrip(SubSeq(s, 1, Len(s) - 1)) ELSE s

\* str.strip()
Strip(s) == RStrip(LStrip(s))

\* runs of whitespace become one space
RECURSIVE Collapse(_)
Collapse(s) ==
    IF Len(s) < 2 THEN s
    ELSE IF IsSpace(s[1]) /\ IsSpace(s[2]) THEN Collapse(Tail(s))
    ELSE <<s[1]>> \o Collapse(Tail(s))

(***************************************************************************)
(* PashtoTTSService._synthesize_to_wav, called on its own for one segment: *)
(* the edge-tts attempt matrix or the single espeak process.               *)
(***************************************************************************)
female_voice == "ps-AF-LatifaNeural"
male_voice   == "ps-AF-GulNawazNeural"

TtsRounds == 4
MinMp3Bytes == 2048
MinClipCentis == 18        \* 0.18 s, in hundredths of a second

RECURSIVE Dedup(_, _)
\* tts_service.py:92-96
Dedup(order, acc) ==
    IF order = <<>> THEN acc
    ELSE LET voice == Head(order)
         IN  Dedup(Tail(order),
                   IF voice # "" /\ \A j \in 1..Len(acc) : acc[j] # voice
                   THEN Append(acc, voice) ELSE acc)

voice_candidates_hint_first(mode, source_gender_hint, tts_voice) ==
    LET configured == IF tts_voice = "" THEN female_voice ELSE tts_voice
        order == IF source_gender_hint = "male"
                 THEN <<male_voice, configured, female_voice>>
                 ELSE IF source_gender_hint = "female"
                 THEN <<female_voice, configured, male_voice>>
                 ELSE IF mode = "male" THEN <<male_voice, configured, female_voice>>
                 ELSE IF mode = "female" THEN <<female_voice, configured, male_voice>>
                 ELSE <<configured, female_voice, male_voice>>
    IN  Dedup(order, <<>>)

\* tts_service.py:74-96  _voice_candidates
voice_candidates(mode, source_gender_hint, tts_voice) ==
    LET configured == IF tts_voice = "" THEN female_voice ELSE tts_voice
        order == IF mode = "male" THEN <<male_voice, configured, female_voice>>
                 ELSE IF mode = "female" THEN <<female_voice, configured, male_voice>>
                 ELSE IF source_gender_hint = "male"
                      THEN <<male_voice, configured, female_voice>>
                 ELSE IF source_gender_hint = "female"
                      THEN <<female_voice, configured, male_voice>>
                 ELSE <<configured, female_voice, male_voice>>
    IN  Dedup(order, <<>>)

\* What _edge_proxy_candidates reads: the values of the proxy environment
\* variables in the order they are looked up ("" when unset or blank) and
\* the local ports that accept a connection.
ProxySettings ==
    { [values |-> <<"", "">>, ports |-> {}],
      [values |-> <<"http://proxy:8080", "http://proxy:8080">>, ports |-> {}],
      [values |-> <<"", "">>, ports |-> {7890}],
      [values |-> <<"http://127.0.0.1:7890", "">>, ports |-> {7890}],
      [values |-> <<"http://proxy:8080", "">>, ports |-> {17890}],
      [values |-> <<"http://proxy:8080", "">>, ports |-> {17890, 7890}] }

LocalProxy(port, ports) ==
    IF port \in ports
    THEN (IF port = 17890 THEN "http://127.0.0.1:17890"
          ELSE "http://127.0.0.1:7890")
    ELSE ""

\* tts_service.py:61-72  _edge_proxy_candidates: None first, then each
\* environment value and each open local port not yet in the list
edge_proxy_candidates(settings) ==
    Dedup(<<LocalProxy(17890, settings.ports), LocalProxy(7890, settings.ports)>>,
          Dedup(settings.values, <<"None">>))

\* tts_service.py:110-114  rounds, then proxies, then voices
Attempts(voices, proxies) ==
    LET V == Len(voices)
        P == Len(proxies)
    IN  [i \in 1..(TtsRounds * P * V) |->
            [voice     |-> voices[((i - 1) % V) + 1],
             proxy     |-> proxies[(((i - 1) \div V) % P) + 1],
             round_idx |-> (i - 1) \div (P * V)]]

\* Segment texts as sequences of characters: empty, whitespace only, and
\* with something to say.
TtsTexts == {<<>>, <<" ", " ">>, <<" ", "a", " ", " ", "a">>}

CleanTextKeepsBlanks(text) == text

\* " ".join((text or "").strip().split())
CleanText(text) == Strip(Collapse(text))

BackoffConstant(round_idx) == 10

\* time.sleep(1.0 + 0.7 * round_idx), in tenths of a second
Backoff(round_idx) == 10 + 7 * round_idx

\* The espeak backend reads none of the voice and proxy settings of the
\* attempt matrix.
TtsEnvs ==
    { e \in [ text : TtsTexts, backend : {"edge_tts", "espeak"},
              mode : {"male", "female", "auto"},
              hint : {"male", "female", "unknown"},
              tts_voice : {"", female_voice, male_voice, "custom"},
              proxies : ProxySettings ] :
        /\ Len(edge_proxy_candidates(e.proxies)) <= MaxProxies
        /\ e.backend = "espeak" =>
               /\ e.mode = "auto" /\ e.hint = "unknown"
               /\ e.proxies = [values |-> <<"", "">>, ports |-> {}]
               /\ e.tts_voice = "custom" }

ttsVars == <<op, cancel_event, env, progress_log, tr>>

CallTts ==
    /\ op = "idle"
    /\ \E e \in TtsEnvs : env' = e
    /\ op' = "tts" /\ pc' = "begin"
    /\ UNCHANGED <<cancel_event, outcome, error, observed, progress_log, tts, tr>>
    /\ UNCHANGED runVars /\ UNCHANGED <<proc, call>>

\* tts_service.py:195-205, then 104-119 or 180-182
TtsBegin ==
    /\ op = "tts" /\ pc = "begin"
    /\ IF CleanText(env.text) = <<>>
       THEN /\ outcome' = "failed" /\ error' = "RuntimeError"
            /\ tts' = [tts EXCEPT !.last_exc = "Empty text passed to TTS"]
            /\ pc' = "end"
       ELSE IF env.backend = "edge_tts"
       THEN /\ tts' = [tts EXCEPT
                         !.idx = 1,
                         !.probed = TRUE,
                         !.attempts = Attempts(
                             voice_candidates(env.mode, env.hint, env.tts_voice),
                             edge_proxy_candidates(env.proxies))]
            /\ pc' = "check"
            /\ UNCHANGED <<outcome, error>>
       ELSE /\ pc' = "espeak"
            /\ UNCHANGED <<tts, outcome, error>>
    /\ UNCHANGED <<observed>>
    /\ UNCHANGED ttsVars /\ UNCHANGED runVars /\ UNCHANGED <<proc, call>>

TtsCheckIgnoresToken ==
    /\ op = "tts" /\ pc = "check"
    /\ pc' = "edge"
    /\ tts' = [tts EXCEPT !.made = @ + 1,
                          !.tried = Append(@, tts.attempts[tts.idx])]
    /\ UNCHANGED <<outcome, error, observed>>
    /\ UNCHANGED ttsVars /\ UNCHANGED runVars /\ UNCHANGED <<proc, call>>

\* tts_service.py:120-121  the checkpoint before every attempt
TtsCheck ==
    /\ op = "tts" /\ pc = "check"
    /\ IF cancel_event
       THEN /\ outcome' = "cancelled" /\ error' = "PipelineCancelledError"
            /\ observed' = TRUE
            /\ pc' = "end"
            /\ UNCHANGED tts
       ELSE /\ pc' = "edge"
            /\ tts' = [tts EXCEPT !.made = @ + 1,
                                  !.tried = Append(@, tts.attempts[tts.idx])]
            /\ UNCHANGED <<outcome, error, observed>>
    /\ UNCHANGED ttsVars /\ UNCHANGED runVars /\ UNCHANGED <<proc, call>>

\* utils.py:61-103  how run_command can end: the child exits with status 0
\* or not, or the polling loop sees the token set.
CommandEnds ==
    {"ok", "Command failed"}
        \cup (IF cancel_event THEN {"PipelineCancelledError"} ELSE {})

TtsExceptFatal(exc) ==
    /\ observed' = (observed \/ exc = "PipelineCancelledError")
    /\ tts' = [tts EXCEPT
                 !.last_exc = exc, !.spawned = TRUE,
                 !.delays = Append(@, Backoff(tts.attempts[tts.idx].round_idx))]
    /\ outcome' = "failed" /\ error' = "RuntimeError"
    /\ pc' = "end"

\* tts_service.py:165-172  except Exception: remember, log, sleep; after the
\* last attempt the loop ends and line 172 raises RuntimeError.
TtsExcept(exc) ==
    /\ observed' = (observed \/ exc = "PipelineCancelledError")
    /\ IF tts.idx = Len(tts.attempts)
       THEN /\ tts' = [tts EXCEPT
                         !.last_exc = exc, !.spawned = TRUE,
                         !.delays = Append(@, Backoff(tts.attempts[tts.idx].round_idx))]
            /\ outcome' = "failed" /\ error' = "RuntimeError"
            /\ pc' = "end"
       ELSE /\ tts' = [tts EXCEPT
                         !.last_exc = exc, !.idx = @ + 1, !.spawned = TRUE,
                         !.delays = Append(@, Backoff(tts.attempts[tts.idx].round_idx))]
            /\ pc' = "check"
            /\ UNCHANGED <<outcome, error>>

\* tts_service.py:122-144  the backend process and its output file
TtsEdge ==
    /\ op = "tts" /\ pc = "edge"
    /\ \E ends \in CommandEnds, mp3_bytes \in {0, MinMp3Bytes - 1, MinMp3Bytes} :
         IF ends # "ok" THEN TtsExcept(ends)
         ELSE IF mp3_bytes < MinMp3Bytes
              THEN TtsExcept("mp3 missing or too small")
              ELSE /\ pc' = "convert"
                   /\ tts' = [tts EXCEPT !.spawned = TRUE]
                   /\ UNCHANGED <<outcome, error, observed>>
    /\ UNCHANGED ttsVars /\ UNCHANGED runVars /\ UNCHANGED <<proc, call>>

\* tts_service.py:145-164  conversion to 16 kHz mono PCM and validation
TtsConvert ==
    /\ op = "tts" /\ pc = "convert"
    /\ \E ends \in CommandEnds, centis \in {MinClipCentis - 1, MinClipCentis},
          clip \in Clips :
         IF ends # "ok" THEN TtsExcept(ends)
         ELSE IF centis < MinClipCentis THEN TtsExcept("too short")
         ELSE IF is_near_silent(clip) THEN TtsExcept("near-silent")
         ELSE /\ outcome' = "done" /\ pc' = "end"
              /\ tts' = [tts EXCEPT !.clip = clip]
              /\ UNCHANGED <<error, observed>>
    /\ UNCHANGED ttsVars /\ UNCHANGED runVars /\ UNCHANGED <<proc, call>>

\* tts_service.py:183-193  the espeak backend: one process, no retry
TtsEspeak ==
    /\ op = "tts" /\ pc = "espeak"
    /\ \E ends \in CommandEnds, clip \in Clips :
         /\ pc' = "end"
         /\ tts' = [tts EXCEPT !.made = 1, !.spawned = TRUE,
                               !.last_exc = IF ends # "ok" THEN ends
                                            ELSE IF is_near_silent(clip)
                                            THEN "near-silent" ELSE "none",
                               !.clip = clip]
         /\ IF ends = "PipelineCancelledError"
            THEN /\ outcome' = "cancelled" /\ error' = "PipelineCancelledError"
                 /\ observed' = TRUE
            ELSE IF ends # "ok" \/ is_near_silent(clip)
            THEN /\ outcome' = "failed" /\ error' = "RuntimeError"
                 /\ UNCHANGED observed
            ELSE /\ outcome' = "done" /\ UNCHANGED <<error, observed>>
    /\ UNCHANGED ttsVars /\ UNCHANGED runVars /\ UNCHANGED <<proc, call>>

(***************************************************************************)
(* PashtoTTSService.synthesize_segments (tts_service.py:207-248), called   *)
(* on its own with the token: the loop over the segments and the final     *)
(* concatenation.  What _synthesize_to_wav does for a segment is the       *)
(* operation above; here it is its result.                                 *)
(***************************************************************************)
MaxSegments == 2      \* segments of the longest modelled list

SegmentsEnvs == [ segments : 0..MaxSegments ]

\* How _synthesize_to_wav can end for a segment.
SynthesisEnds ==
    {"ok", "RuntimeError"}
        \cup (IF cancel_event THEN {"PipelineCancelledError"} ELSE {})

segVars == <<op, env, cancel_event, progress_log, tts, tr, proc>>

CallSynthesizeSegments ==
    /\ op = "idle"
    /\ \E e \in SegmentsEnvs : env' = e
    /\ op' = "segments" /\ pc' = "segment"
    /\ call' = [fn |-> "synthesize_segments", idx |-> 1, synthesized |-> <<>>,
                chunk_files |-> <<>>, failed_at |-> 0]
    /\ UNCHANGED <<cancel_event, outcome, error, observed, progress_log, tts, tr, proc>>
    /\ UNCHANGED runVars

\* tts_service.py:217-225  one segment of the loop
SegmentsSynthesize ==
    /\ op = "segments" /\ pc = "segment" /\ call.idx <= env.segments
    /\ IF cancel_event
       THEN /\ outcome' = "cancelled" /\ error' = "PipelineCancelledError"
            /\ observed' = TRUE /\ pc' = "end"
            /\ UNCHANGED call
       ELSE \E ends \in SynthesisEnds :
              LET tried == [call EXCEPT !.synthesized = Append(@, call.idx)]
              IN IF ends # "ok"
                 THEN /\ call' = [tried EXCEPT !.failed_at = call.idx]
                      /\ outcome' = "failed" /\ error' = ends /\ pc' = "end"
                      /\ UNCHANGED observed
                 ELSE \* line 224
                      IF ~CallBinds(StretchCallKeywords,
                                    time_stretch_audio_to_target_params)
                      THEN /\ call' = tried
                           /\ outcome' = "failed" /\ error' = "TypeError"
                           /\ pc' = "end"
                           /\ UNCHANGED observed
                      ELSE /\ call' = [tried EXCEPT
                                         !.idx = @ + 1,
                                         !.chunk_files = Append(@, call.idx)]
                           /\ UNCHANGED <<pc, outcome, error, observed>>
    /\ UNCHANGED segVars /\ UNCHANGED runVars

\* tts_service.py:227-248  the list file and the concatenation
SegmentsConcat ==
    /\ op = "segments" /\ pc = "segment" /\ call.idx > env.segments
    /\ \E ends \in CommandEnds :
         IF ends = "ok"
         THEN outcome' = "done" /\ UNCHANGED <<error, observed>>
         ELSE IF ends = "PipelineCancelledError"
         THEN /\ outcome' = "cancelled" /\ error' = "PipelineCancelledError"
              /\ observed' = TRUE
         ELSE /\ outcome' = "failed" /\ error' = "RuntimeError"
              /\ UNCHANGED observed
    /\ pc' = "end"
    /\ UNCHANGED call
    /\ UNCHANGED segVars /\ UNCHANGED runVars

(***************************************************************************)
(* Wav2LipRunner.run_lip_sync (wav2lip_service.py:18-98), called on its    *)
(* own with the keywords it accepts.                                       *)
(***************************************************************************)
LipSyncEnvs ==
    [ repo : BOOLEAN, checkpoint : BOOLEAN, face_detector : BOOLEAN,
      copies : BOOLEAN, dominant_box : {<<>>, <<10, 90, 20, 80>>},
      device_policy : {"cpu", "auto"} ]

ensure_assets_trusts_detector(e) ==
    IF ~e.repo THEN "Wav2Lip repository not found"
    ELSE IF ~e.checkpoint THEN "Missing Wav2Lip checkpoint"
    ELSE IF ~e.copies THEN "OSError"
    ELSE "none"

\* wav2lip_service.py:18-35  the error ensure_assets raises, if any
ensure_assets(e) ==
    IF ~e.repo THEN "Wav2Lip repository not found"
    ELSE IF ~e.checkpoint THEN "Missing Wav2Lip checkpoint"
    ELSE IF ~e.face_detector THEN "Missing face detection checkpoint"
    ELSE IF ~e.copies THEN "OSError"
    ELSE "none"

PadsFallbacks ==
    << [box |-> <<>>, pads |-> <<0, 20, 0, 0>>, resize_factor |-> 1,
        nosmooth |-> FALSE],
       [box |-> <<>>, pads |-> <<0, 40, 0, 0>>, resize_factor |-> 1,
        nosmooth |-> TRUE],
       [box |-> <<>>, pads |-> <<0, 40, 0, 0>>, resize_factor |-> 2,
        nosmooth |-> TRUE] >>

BoxAttempt(dominant_box) ==
    [box |-> dominant_box, pads |-> <<>>, resize_factor |-> 1,
     nosmooth |-> FALSE]

LipSyncAttemptsBoxLast(dominant_box) ==
    IF dominant_box # <<>>
    THEN PadsFallbacks \o <<BoxAttempt(dominant_box)>>
    ELSE PadsFallbacks

\* wav2lip_service.py:59-69
LipSyncAttempts(dominant_box) ==
    IF dominant_box # <<>>
    THEN <<BoxAttempt(dominant_box)>> \o PadsFallbacks
    ELSE PadsFallbacks

lipVars == <<op, env, cancel_event, observed, progress_log, tts, tr, proc>>

CallLipSync ==
    /\ op = "idle"
    /\ \E e \in LipSyncEnvs : env' = e
    /\ op' = "lipsync" /\ pc' = "begin"
    /\ call' = [fn |-> "run_lip_sync", attempts |-> <<>>, tried |-> <<>>,
                failures |-> <<>>, message |-> <<>>]
    /\ UNCHANGED <<cancel_event, outcome, error, observed, progress_log, tts, tr, proc>>
    /\ UNCHANGED runVars

\* wav2lip_service.py:46-70
LipSyncBegin ==
    /\ op = "lipsync" /\ pc = "begin"
    /\ LET missing == ensure_assets(env)
       IN IF missing # "none"
          THEN /\ outcome' = "failed"
               /\ error' = IF missing = "OSError" THEN "OSError" ELSE "RuntimeError"
               /\ call' = [call EXCEPT !.message = <<missing>>]
               /\ pc' = "end"
          ELSE /\ call' = [call EXCEPT !.attempts = LipSyncAttempts(env.dominant_box)]
               /\ pc' = "attempt"
               /\ UNCHANGED <<outcome, error>>
    /\ UNCHANGED lipVars /\ UNCHANGED runVars

\* wav2lip_service.py:71-98  one attempt; this run_command gets no token,
\* so it ends with the child's exit status or without a child at all.
LipSyncAttempt ==
    /\ op = "lipsync" /\ pc = "attempt"
    /\ LET i == Len(call.tried) + 1
       IN \E ends \in {"ok", "Command failed", "OSError"} :
            IF ends = "ok"
            THEN /\ call' = [call EXCEPT !.tried = Append(@, call.attempts[i])]
                 /\ outcome' = "done" /\ pc' = "end"
                 /\ UNCHANGED error
            ELSE LET failure == [attempt |-> i, exc |-> ends]
                 IN IF i = Len(call.attempts)
                    THEN /\ call' = [call EXCEPT
                                       !.tried = Append(@, call.attempts[i]),
                                       !.failures = Append(@, failure),
                                       !.message = <<"Wav2Lip failed after retries",
                                                     failure>>]
                         /\ outcome' = "failed" /\ error' = "RuntimeError"
                         /\ pc' = "end"
                    ELSE /\ call' = [call EXCEPT
                                       !.tried = Append(@, call.attempts[i]),
                                       !.failures = Append(@, failure)]
                         /\ UNCHANGED <<pc, outcome, error>>
    /\ UNCHANGED lipVars /\ UNCHANGED runVars

(***************************************************************************)
(* SeamlessTranslator.translate_audio, called on its own.                  *)
(***************************************************************************)
SampleRate      == 16000   \* librosa.load(..., sr=16000)
MinChunkSeconds == 4       \* chunk_size = max(chunk_size, 4 * 16000)
MaxScripted     == 3       \* windows of the sources whose oracle varies

ChunkSizeShortFloor(chunk_seconds) ==
    Max2(chunk_seconds * SampleRate, 2 * SampleRate)

\* int(cfg.chunk_seconds * 16000), then the floor of four seconds
ChunkSize(chunk_seconds) ==
    Max2(chunk_seconds * SampleRate, MinChunkSeconds * SampleRate)

\* list(range(0, len(samples), chunk_size))
Starts(samples, chunk_size) ==
    [i \in 1..((samples + chunk_size - 1) \div chunk_size) |->
        (i - 1) * chunk_size]

ChunkEndUnclamped(start, chunk_size, samples) == start + chunk_size

\* end = min(start + chunk_size, len(samples))
ChunkEnd(start, chunk_size, samples) ==
    IF start + chunk_size <= samples THEN start + chunk_size ELSE samples

\* What the models answer for one chunk: whether the verification block
\* runs ("off": disabled or no text model), runs to its end ("ok") or
\* raises in a text-to-text call ("raises"), and the two round-trip
\* similarities in hundredths.
ChunkOracles ==
    [verify : {"ok"}, score_direct : {50, 100}, score_t2t : {0, 53, 54, 100}]
    \cup [verify : {"off", "raises"}, score_direct : {100}, score_t2t : {100}]

DefaultOracle == [verify |-> "off", score_direct |-> 100, score_t2t |-> 100]

\* The oracle of chunk idx: the script repeats over the chunks.
OracleOf(script, idx) == script[((idx - 1) % Len(script)) + 1]

Margins == {0, 3}          \* cfg.verification_margin, hundredths

MinRoundtripScore == 55    \* cfg.min_roundtrip_score, hundredths

\* seamless_service.py:340-349  what the verification block logs for a
\* chunk: the scores, then a low-confidence warning when the kept score is
\* under the threshold; or that verification was skipped after an error.
VerificationLog(o, score) ==
    IF o.verify = "off" THEN "none"
    ELSE IF o.verify = "raises" THEN "skipped"
    ELSE IF score < MinRoundtripScore THEN "low confidence" ELSE "scores"

EmittedUnlessSkipped(segments, seg, logged) ==
    IF logged = "skipped" THEN segments ELSE Append(segments, seg)

\* seamless_service.py:355-364  segments.append(TextSegment(...))
Emitted(segments, seg, logged) == Append(segments, seg)

SelectHypothesisNonStrict(o, margin) ==
    IF o.verify # "ok"
    THEN [chosen |-> "direct", score |-> 100, strategy |-> "s2tt"]
    ELSE IF o.score_t2t >= o.score_direct + margin
    THEN [chosen |-> "t2t", score |-> o.score_t2t,
          strategy |-> "s2tt+verify->t2tt"]
    ELSE [chosen |-> "direct", score |-> o.score_direct,
          strategy |-> "s2tt+verify->s2tt"]

\* seamless_service.py:319-349  which hypothesis is kept for a chunk
SelectHypothesis(o, margin) ==
    IF o.verify # "ok"
    THEN [chosen |-> "direct", score |-> 100, strategy |-> "s2tt"]
    ELSE IF o.score_t2t > o.score_direct + margin
    THEN [chosen |-> "t2t", score |-> o.score_t2t,
          strategy |-> "s2tt+verify->t2tt"]
    ELSE [chosen |-> "direct", score |-> o.score_direct,
          strategy |-> "s2tt+verify->s2tt"]

\* Sources of up to MaxChunks four-second windows, whole or with a partial
\* last window; the oracle varies on the short ones.
SampleCounts ==
    { k * (MinChunkSeconds * SampleRate) + r :
        k \in 0..(MaxChunks - 1), r \in {0, 1, 40000} }
        \cup {42 * SampleRate}

TranslateEnvs ==
    { e \in [ samples : SampleCounts, chunk_seconds : {0, 4, 5, 20},
              margin : Margins,
              script : [1..1 -> ChunkOracles] \cup [1..2 -> ChunkOracles] ] :
        e.samples > MaxScripted * MinChunkSeconds * SampleRate =>
            /\ e.script = <<DefaultOracle>>
            /\ e.margin = 3 }

trVars == <<op, cancel_event, env, error, observed, tts>>

CallTranslate ==
    /\ op = "idle"
    /\ \E e \in TranslateEnvs : env' = e
    /\ op' = "translate" /\ pc' = "begin"
    /\ UNCHANGED <<cancel_event, outcome, error, observed, progress_log, tts, tr>>
    /\ UNCHANGED runVars /\ UNCHANGED <<proc, call>>

\* seamless_service.py:280-305
TranslateBegin ==
    /\ op = "translate" /\ pc = "begin"
    /\ IF env.samples = 0
       THEN /\ outcome' = "failed" /\ error' = "RuntimeError" /\ pc' = "end"
            /\ UNCHANGED tr
       ELSE /\ tr' = [idx |-> 1,
                      chunk_count |->
                          Len(Starts(env.samples, ChunkSize(env.chunk_seconds))),
                      segments |-> <<>>, log |-> <<>>]
            /\ pc' = "chunk"
            /\ UNCHANGED <<outcome, error>>
    /\ UNCHANGED <<op, cancel_event, env, observed, progress_log, tts>>
    /\ UNCHANGED runVars /\ UNCHANGED <<proc, call>>

\* seamless_service.py:306-365  one chunk of the loop
TranslateChunk ==
    /\ op = "translate" /\ pc = "chunk"
    /\ progress_log' = Append(progress_log, ChunkProgress(tr.idx, tr.chunk_count))
    /\ LET chunk_size == ChunkSize(env.chunk_seconds)
           start == Starts(env.samples, chunk_size)[tr.idx]
           end   == ChunkEnd(start, chunk_size, env.samples)
           sel   == SelectHypothesis(OracleOf(env.script, tr.idx), env.margin)
           seg   == [start_s |-> Frac(start, SampleRate),
                     end_s |-> Frac(end, SampleRate),
                     text |-> sel.chosen,
                     verification_score |-> sel.score,
                     strategy |-> sel.strategy]
           logged == VerificationLog(OracleOf(env.script, tr.idx), sel.score)
       IN IF tr.idx = tr.chunk_count
          THEN /\ pc' = "finish"
               /\ tr' = [tr EXCEPT !.segments = Emitted(@, seg, logged),
                                   !.log = Append(@, logged)]
          ELSE /\ pc' = "chunk"
               /\ tr' = [tr EXCEPT !.idx = @ + 1,
                                   !.segments = Emitted(@, seg, logged),
                                   !.log = Append(@, logged)]
    /\ UNCHANGED outcome
    /\ UNCHANGED trVars /\ UNCHANGED runVars /\ UNCHANGED <<proc, call>>

\* seamless_service.py:367-379
TranslateFinish ==
    /\ op = "translate" /\ pc = "finish"
    /\ progress_log' = progress_log \o <<Frac(98, 100), Frac(1, 1)>>
    /\ outcome' = "done" /\ pc' = "end"
    /\ UNCHANGED tr
    /\ UNCHANGED trVars /\ UNCHANGED runVars /\ UNCHANGED <<proc, call>>

(***************************************************************************)
(* run_command (utils.py:28-103), called by the functions that run an      *)
(* external program.  The child writes lines that the reader thread moves  *)
(* into the queue, followed by the end-of-output sentinel when the child   *)
(* has exited.                                                             *)
(***************************************************************************)
MaxLines == 2         \* output lines of the longest modelled child process

\* The places that call run_command.
CommandSites == {"extract_mono_wav", "time_stretch_audio_to_target",
                 "mux_audio_with_video", "run_lip_sync", "edge_tts",
                 "edge_tts_convert", "espeak", "concat"}

\* Whether the call site hands its cancellation token to run_command.
PassesToken(site) ==
    CASE site = "extract_mono_wav"             -> FALSE   \* ffmpeg_utils.py:29
      [] site = "time_stretch_audio_to_target" -> FALSE   \* ffmpeg_utils.py:98
      [] site = "mux_audio_with_video"         -> FALSE   \* ffmpeg_utils.py:128
      [] site = "run_lip_sync"                 -> FALSE   \* wav2lip_service.py:91
      [] site = "edge_tts"                     -> TRUE    \* tts_service.py:142
      [] site = "edge_tts_convert"             -> TRUE    \* tts_service.py:158
      [] site = "espeak"                       -> TRUE    \* tts_service.py:191
      [] site = "concat"                       -> TRUE    \* tts_service.py:248

\* What the attempt to kill the process tree with taskkill does: it kills the
\* tree, it runs and fails, or it cannot be started (no such program).
TaskkillOutcomes == {"ok", "failed", "unavailable"}

CommandEnvs == [ site : CommandSites, spawns : BOOLEAN, lines : 0..MaxLines,
                 exit_code : {0, 1}, subchildren : BOOLEAN,
                 taskkill : TaskkillOutcomes ]

cmdVars == <<cancel_event, env, progress_log, tts, tr, call>>

CallCommand ==
    /\ op = "idle"
    /\ \E e \in CommandEnvs : env' = e
    /\ op' = "cmd" /\ pc' = "spawn"
    /\ UNCHANGED <<cancel_event, outcome, error, observed, progress_log, tts, tr>>
    /\ UNCHANGED runVars /\ UNCHANGED <<proc, call>>

\* utils.py:36-61  Popen, the queue and the reader thread
CmdSpawn ==
    /\ op = "cmd" /\ pc = "spawn"
    /\ IF env.spawns
       THEN /\ proc' = [ProcIdle EXCEPT
                          !.child = "running",
                          !.subs = IF env.subchildren THEN "running" ELSE "none",
                          !.to_emit = env.lines]
            /\ pc' = "poll"
            /\ UNCHANGED <<outcome, error>>
       ELSE /\ outcome' = "failed" /\ error' = "OSError" /\ pc' = "end"
            /\ UNCHANGED proc
    /\ UNCHANGED <<op, observed>>
    /\ UNCHANGED cmdVars /\ UNCHANGED runVars

\* The k-th line of the child's output without its line end: empty, blank,
\* or a text of its own followed by a blank.
RawLines(k) == {<<>>, <<" ">>, <<ToString(k), " ">>}

\* The end-of-output mark (None), unlike any line.
Sentinel == <<"None">>

LoggedNewestFirst(logged, line) ==
    IF line # <<>> THEN <<line>> \o logged ELSE logged

\* utils.py:67-68  if line: logger(line)
Logged(logged, line) ==
    IF line # <<>> THEN Append(logged, line) ELSE logged

\* utils.py:52-55  the child writes a line and the reader thread puts it,
\* rstripped, into the queue
ChildEmits ==
    /\ op = "cmd" /\ proc.child = "running" /\ proc.to_emit > 0
    /\ \E raw_line \in RawLines(env.lines - proc.to_emit + 1) :
         proc' = [proc EXCEPT !.written = Append(@, raw_line),
                              !.queue = Append(@, RStrip(raw_line)),
                              !.to_emit = @ - 1]
    /\ UNCHANGED <<op, pc, outcome, error, observed>>
    /\ UNCHANGED cmdVars /\ UNCHANGED runVars

\* utils.py:54-56  the child exits on its own; the reader thread sees the end
\* of its output and puts the sentinel into the queue
ChildExits ==
    /\ op = "cmd" /\ proc.child = "running"
    /\ proc' = [proc EXCEPT !.child = "exited", !.queue = Append(@, Sentinel)]
    /\ UNCHANGED <<op, pc, outcome, error, observed>>
    /\ UNCHANGED cmdVars /\ UNCHANGED runVars

\* utils.py:62-74  one iteration of the polling loop
CmdPoll ==
    /\ op = "cmd" /\ pc = "poll"
    /\ LET got  == proc.queue # <<>>
           line == IF got THEN Head(proc.queue) ELSE <<>>
           rest == IF got THEN Tail(proc.queue) ELSE <<>>
       IN  IF got /\ line = Sentinel
           THEN /\ pc' = "wait"
                /\ proc' = [proc EXCEPT !.queue = rest]
                /\ UNCHANGED observed
           ELSE LET logs == Logged(proc.logged, line)
                IN  IF PassesToken(env.site) /\ cancel_event
                    THEN /\ pc' = "kill"
                         /\ observed' = TRUE
                         /\ proc' = [proc EXCEPT !.queue = rest,
                                                 !.logged = logs,
                                                 !.at_cancel = proc.child]
                    ELSE /\ pc' = "poll"
                         /\ proc' = [proc EXCEPT !.queue = rest,
                                                 !.logged = logs]
                         /\ UNCHANGED observed
    /\ UNCHANGED <<op, outcome, error>>
    /\ UNCHANGED cmdVars /\ UNCHANGED runVars

\* utils.py:76-97  taskkill /T /F, else terminate(); wait(2.0), else kill();
\* then PipelineCancelledError
CmdKill ==
    /\ op = "cmd" /\ pc = "kill"
    /\ proc' = [proc EXCEPT
                  !.child = IF @ = "running" THEN "killed" ELSE @,
                  !.subs  = IF @ = "running" /\ proc.child = "running"
                               /\ env.taskkill = "ok"
                            THEN "killed" ELSE @]
    /\ outcome' = "cancelled" /\ error' = "PipelineCancelledError"
    /\ pc' = "end"
    /\ UNCHANGED <<op, observed>>
    /\ UNCHANGED cmdVars /\ UNCHANGED runVars

\* Mutant of CmdWait: the exit status is not looked at.
CmdWaitIgnoresStatus ==
    /\ op = "cmd" /\ pc = "wait"
    /\ outcome' = "done" /\ pc' = "end"
    /\ UNCHANGED <<op, error, observed, proc>>
    /\ UNCHANGED cmdVars /\ UNCHANGED runVars

\* utils.py:99-103  wait for the exit status; non-zero raises RuntimeError
\* with the status and the command text
CmdWait ==
    /\ op = "cmd" /\ pc = "wait"
    /\ IF env.exit_code = 0
       THEN /\ outcome' = "done"
            /\ UNCHANGED <<error, proc>>
       ELSE /\ outcome' = "failed" /\ error' = "RuntimeError"
            /\ proc' = [proc EXCEPT !.message = <<env.exit_code, env.site>>]
    /\ pc' = "end"
    /\ UNCHANGED <<op, observed>>
    /\ UNCHANGED cmdVars /\ UNCHANGED runVars

(***************************************************************************)
(* Pure functions, called on their own with inputs from bounded sets.      *)
(***************************************************************************)
fnVars == <<cancel_event, env, observed, progress_log, tts, tr, proc>>

Abs(x) == IF x < 0 THEN -x ELSE x

RECURSIVE Pow2(_)
Pow2(k) == IF k = 0 THEN 1 ELSE 2 * Pow2(k - 1)

(***************************************************************************)
(* _build_atempo_filter (ffmpeg_utils.py:49-61).  A tempo is a number of   *)
(* ten-millionths; the remainder is the exact fraction n/d ten-millionths  *)
(* (halving and doubling are exact in binary floating point); an emitted   *)
(* factor is the number of millionths that "%.6f" prints.                  *)
(***************************************************************************)
TenMillionth == 10000000
Two  == 2000000          \* "atempo=2.000000", in millionths
Half == 500000           \* "atempo=0.500000", in millionths

\* Mutant of FormatMicros: the digits after the sixth are cut off.
FormatMicrosTruncates(rem) == rem.n \div (10 * rem.d)

\* f"{f:.6f}": the nearest millionth, an exact tie going to the even digit
FormatMicros(rem) ==
    LET den == 10 * rem.d
        q   == rem.n \div den
        r   == rem.n % den
    IN  IF 2 * r > den THEN q + 1
        ELSE IF 2 * r < den THEN q
        ELSE IF q % 2 = 0 THEN q ELSE q + 1

RECURSIVE BuildFactors(_, _)
\* ffmpeg_utils.py:54-61
BuildFactors(rem, factors) ==
    IF rem.n > 2 * TenMillionth * rem.d
    THEN BuildFactors(Frac(rem.n, 2 * rem.d), Append(factors, Two))
    ELSE IF 2 * rem.n < TenMillionth * rem.d
         THEN BuildFactors(Frac(2 * rem.n, rem.d), Append(factors, Half))
         ELSE Append(factors, FormatMicros(rem))

\* ffmpeg_utils.py:49-61
build_atempo_filter(tempo) ==
    IF tempo <= 0
    THEN [raised |-> "ValueError", factors |-> <<>>]
    ELSE [raised |-> "none", factors |-> BuildFactors(Frac(tempo, 1), <<>>)]

\* Tempos handed to the function, in ten-millionths: -1, 0, 0.1, 0.3, 0.5,
\* 0.5078125 (an exact tie behind the sixth digit), 1, 1.0000007, 2,
\* 2.0000001, 3.2, 4, 5.0000014 and 8.5.
Tempos == {-10000000, 0, 1000000, 3000000, 5000000, 5078125, 10000000,
           10000007, 20000000, 20000001, 32000000, 40000000, 50000014,
           85000000}

CallBuildAtempoFilter ==
    /\ op = "idle"
    /\ \E tempo \in Tempos :
         LET res == build_atempo_filter(tempo)
         IN  /\ call' = [fn |-> "_build_atempo_filter", tempo |-> tempo,
                         factors |-> res.factors]
             /\ outcome' = IF res.raised = "none" THEN "done" ELSE "failed"
             /\ error' = res.raised
    /\ op' = "fn" /\ pc' = "end"
    /\ UNCHANGED fnVars /\ UNCHANGED runVars

(***************************************************************************)
(* The lip-sync gate (speaker_gate.py).                                    *)
(***************************************************************************)
MaxFrames == 5        \* readable frames of the longest modelled video

\* Ratios, in percent, on which the decision rule is exercised.
GridRatios == {0, 5, 9, 10, 11, 50, 80, 94, 95, 96, 100}

\* speaker_gate.py:88-112 on its own
CallGateRule ==
    /\ op = "idle"
    /\ \E face_ratio \in GridRatios, speech_ratio \in GridRatios :
         call' = [fn |-> "gate_rule", face_ratio |-> face_ratio,
                  speech_ratio |-> speech_ratio,
                  decision |-> evaluate_lipsync_gate(face_ratio, speech_ratio)]
    /\ outcome' = "done" /\ op' = "fn" /\ pc' = "end"
    /\ UNCHANGED error
    /\ UNCHANGED fnVars /\ UNCHANGED runVars

\* Faces as detectMultiScale reports them: x, y, width, height.
FaceA == [x |-> 10, y |-> 20, w |-> 50, h |-> 50]
FaceB == [x |-> 11, y |-> 23, w |-> 60, h |-> 48]
FaceC == [x |-> 14, y |-> 20, w |-> 50, h |-> 50]

\* What the detector finds in one frame.
Detections == { <<>>, <<FaceA, FaceB>>, <<FaceC>>, <<FaceA, FaceC>> }

RECURSIVE SeqsUpTo(_, _)
\* All sequences over S of length at most n.
SeqsUpTo(S, n) ==
    IF n = 0 THEN {<<>>}
    ELSE LET shorter == SeqsUpTo(S, n - 1)
         IN  shorter \cup {Append(q, x) : q \in shorter, x \in S}

\* The source audio as the speech estimate sees it: sample count, number of
\* RMS windows and number of windows above the threshold (a silent track has
\* none, the threshold being at least 0.008).
GateAudios == { [size |-> 0, windows |-> 0,  above |-> 0],
                [size |-> 1, windows |-> 0,  above |-> 0],
                [size |-> 1, windows |-> 10, above |-> 0],
                [size |-> 1, windows |-> 10, above |-> 1],
                [size |-> 1, windows |-> 10, above |-> 5] }

GateEnvs == [ opens : BOOLEAN, detector : BOOLEAN,
              frames : SeqsUpTo(Detections, MaxFrames), audio : GateAudios ]

Percent(n, d) == (100 * n) \div d

\* speaker_gate.py:69-80  _estimate_speech_ratio, in percent
estimate_speech_ratio(audio) ==
    IF audio.size = 0 THEN 0
    ELSE IF audio.windows = 0 THEN 0
    ELSE Percent(audio.above, audio.windows)

\* speaker_gate.py:59  max(faces, key=area): the first face of largest area
LargestFace(faces) ==
    LET area(f) == f.w * f.h
        j == CHOOSE j \in 1..Len(faces) :
                 /\ \A k \in 1..Len(faces) : area(faces[k]) <= area(faces[j])
                 /\ \A k \in 1..(j - 1) : area(faces[k]) < area(faces[j])
    IN  faces[j]

\* speaker_gate.py:61  (y, y + h, x, x + w)
BoxOf(f) == <<f.y, f.y + f.h, f.x, f.x + f.w>>

RECURSIVE DetectLoop(_, _, _, _)
\* speaker_gate.py:44-61  the frame loop; frame_idx counts from 0
DetectLoop(frames, frame_idx, sample_every_n, acc) ==
    IF frames = <<>> THEN acc
    ELSE LET faces == Head(frames)
             rest  == Tail(frames)
         IN  IF frame_idx % sample_every_n # 0
             THEN DetectLoop(rest, frame_idx + 1, sample_every_n, acc)
             ELSE DetectLoop(rest, frame_idx + 1, sample_every_n,
                    [sampled   |-> acc.sampled + 1,
                     with_face |-> IF faces = <<>> THEN acc.with_face
                                   ELSE acc.with_face + 1,
                     boxes     |-> IF faces = <<>> THEN acc.boxes
                                   ELSE Append(acc.boxes, BoxOf(LargestFace(faces)))])

\* speaker_gate.py:30-66  _detect_faces
detect_faces(e) ==
    IF ~e.opens THEN [raised |-> "RuntimeError", boxes |-> <<>>, ratio |-> 0]
    ELSE IF ~e.detector
         THEN [raised |-> "RuntimeError", boxes |-> <<>>, ratio |-> 0]
    ELSE LET got == DetectLoop(e.frames, 0, 2,
                               [sampled |-> 0, with_face |-> 0, boxes |-> <<>>])
         IN  [raised |-> "none", boxes |-> got.boxes,
              ratio |-> IF got.sampled > 0
                        THEN Percent(got.with_face, got.sampled) ELSE 0]

\* The k-th smallest of the values of a sequence.
KthSmallest(vals, k) ==
    CHOOSE v \in {vals[i] : i \in 1..Len(vals)} :
        /\ Cardinality({i \in 1..Len(vals) : vals[i] < v}) < k
        /\ Cardinality({i \in 1..Len(vals) : vals[i] <= v}) >= k

\* np.median(...).astype(int): the middle value, or the mean of the two
\* middle values with its fraction cut off
MedianAsInt(vals) ==
    LET n == Len(vals)
    IN  IF n % 2 = 1 THEN KthSmallest(vals, (n + 1) \div 2)
        ELSE (KthSmallest(vals, n \div 2) + KthSmallest(vals, n \div 2 + 1)) \div 2

\* Mutant of median_box: the first recorded box is returned.
median_box_takes_first(boxes) ==
    IF boxes = <<>> THEN <<>> ELSE boxes[1]

\* speaker_gate.py:21-27  _median_box; <<>> stands for None
median_box(boxes) ==
    IF boxes = <<>> THEN <<>>
    ELSE [c \in 1..4 |-> MedianAsInt([i \in 1..Len(boxes) |-> boxes[i][c]])]

\* speaker_gate.py:83-112  evaluate_lipsync_gate
lipsync_gate(e) ==
    LET speech_ratio == estimate_speech_ratio(e.audio)
        faces == detect_faces(e)
    IN  IF faces.raised # "none"
        THEN [raised |-> faces.raised, boxes |-> <<>>, decision |-> <<>>]
        ELSE LET rule == evaluate_lipsync_gate(faces.ratio, speech_ratio)
             IN  [raised |-> "none", boxes |-> faces.boxes,
                  decision |-> [should_lipsync |-> rule.should_lipsync,
                                reason |-> rule.reason,
                                speech_ratio |-> speech_ratio,
                                face_ratio |-> faces.ratio,
                                dominant_box |-> median_box(faces.boxes)]]

CallGate ==
    /\ op = "idle"
    /\ \E e \in GateEnvs :
         LET res == lipsync_gate(e)
         IN  /\ call' = [fn |-> "evaluate_lipsync_gate", input |-> e,
                         boxes |-> res.boxes, decision |-> res.decision]
             /\ outcome' = IF res.raised = "none" THEN "done" ELSE "failed"
             /\ error' = res.raised
    /\ op' = "fn" /\ pc' = "end"
    /\ UNCHANGED fnVars /\ UNCHANGED runVars

(***************************************************************************)
(* SeamlessTranslator._normalize_text and _similarity                      *)
(* (seamless_service.py:58-71).  A text is a sequence of characters from   *)
(* an alphabet with one member of each class the two regular expressions   *)
(* and str.lower tell apart: a lower-case letter, an upper-case letter,    *)
(* the underscore (matched by \w), whitespace and punctuation.             *)
(***************************************************************************)
MaxText == 3          \* characters of the longest modelled text

Alphabet == {"a", "A", "_", " ", "!"}

Texts == SeqsUpTo(Alphabet, MaxText)

\* \w
IsWord(c) == c \in {"a", "A", "_"}

Lower(c) == IF c = "A" THEN "a" ELSE c

\* str.lower()
LowerText(s) == [i \in 1..Len(s) |-> Lower(s[i])]

\* re.sub(r"[^\w\s\u0600-\u06FF]", " ", txt)
SubNonWord(s) ==
    [i \in 1..Len(s) |-> IF IsWord(s[i]) \/ IsSpace(s[i]) THEN s[i] ELSE " "]

normalize_text(value) ==
    Strip(Collapse(SubNonWord(LowerText(Strip(value)))))

\* a[i..i+k-1] = b[j..j+k-1]
BlockMatches(a, b, i, j, k) == \A t \in 0..(k - 1) : a[i + t] = b[j + t]

\* difflib.SequenceMatcher.get_matching_blocks without junk: the longest
\* common block, the earliest in a and then in b among the longest, and
\* the same again to its left and to its right; the total matched length.
RECURSIVE MatchingTotal(_, _, _, _, _, _)
MatchingTotal(a, alo, ahi, b, blo, bhi) ==
    IF alo > ahi \/ blo > bhi THEN 0
    ELSE LET Blocks ==
                 { x \in (alo..ahi) \X (blo..bhi) \X (1..(ahi - alo + 1)) :
                       /\ x[1] + x[3] - 1 <= ahi
                       /\ x[2] + x[3] - 1 <= bhi
                       /\ BlockMatches(a, b, x[1], x[2], x[3]) }
         IN IF Blocks = {} THEN 0
            ELSE LET best == CHOOSE x \in Blocks : \A y \in Blocks :
                                 \/ x[3] > y[3]
                                 \/ /\ x[3] = y[3]
                                    /\ \/ x[1] < y[1]
                                       \/ x[1] = y[1] /\ x[2] <= y[2]
                 IN best[3]
                    + MatchingTotal(a, alo, best[1] - 1, b, blo, best[2] - 1)
                    + MatchingTotal(a, best[1] + best[3], ahi,
                                    b, best[2] + best[3], bhi)

\* SequenceMatcher(None, a, b).ratio(): 2.0 * matches / length, 1.0 when
\* both are empty
Ratio(a, b) ==
    IF Len(a) + Len(b) = 0 THEN Frac(1, 1)
    ELSE Frac(2 * MatchingTotal(a, 1, Len(a), b, 1, Len(b)), Len(a) + Len(b))

similarity_unguarded(a, b) == Ratio(normalize_text(a), normalize_text(b))

similarity(a, b) ==
    LET na == normalize_text(a)
        nb == normalize_text(b)
    IN IF na = <<>> \/ nb = <<>> THEN Frac(0, 1) ELSE Ratio(na, nb)

\* tts_service.py:34-44  the check shared by the synthesis attempts and
\* by VideoDubPipeline.run on the aligned track
CallIsNearSilent ==
    /\ op = "idle"
    /\ \E clip \in Clips :
         call' = [fn |-> "_is_near_silent", clip |-> clip,
                  result |-> is_near_silent(clip)]
    /\ outcome' = "done" /\ error' = "none"
    /\ op' = "fn" /\ pc' = "end"
    /\ UNCHANGED fnVars /\ UNCHANGED runVars

(***************************************************************************)
(* format_srt_timestamp and write_srt (utils.py:106-122).  Times are in    *)
(* units of 1e-4 s, which timedelta(seconds=...) represents exactly.       *)
(***************************************************************************)
TimeUnit == 10000     \* units per second

\* Segment times on both sides of a millisecond, of a whole second (the
\* fraction rounds up to 1000 ms), of a minute, of an hour and of 24 hours.
\* None is half-way between two milliseconds, where the binary fraction,
\* not the decimal one, decides the rounding.
SrtTimes ==
    {-5000, 0, 4, 6, 123456, 19994, 19996, 200000, 599996, 35999999,
     863999990, 864000000, 900005000}

\* int(round(x)) for x = n/d >= 0: to the nearest integer, ties to even
RoundHalfEven(n, d) ==
    LET q == n \div d
        r == n % d
    IN IF 2 * r > d \/ (2 * r = d /\ q % 2 = 1) THEN q + 1 ELSE q

\* The characters f"{n:0w}" takes: at least w, more when n needs more.
RECURSIVE DigitsOf(_)
DigitsOf(n) == IF n < 10 THEN 1 ELSE 1 + DigitsOf(n \div 10)

FieldWidth(n, w) == Max2(w, DigitsOf(n))

\* utils.py:106-112: hour, minute and second of datetime(1, 1, 1) + td,
\* the milliseconds from the fraction of the argument
format_srt_timestamp(seconds) ==
    LET t == IF seconds < 0 THEN 0 ELSE seconds
        whole == t \div TimeUnit
    IN [hour |-> (whole \div 3600) % 24, minute |-> (whole \div 60) % 60,
        second |-> whole % 60,
        millis |-> RoundHalfEven(t % TimeUnit, TimeUnit \div 1000)]

CallFormatSrtTimestamp ==
    /\ op = "idle"
    /\ \E t \in SrtTimes :
         call' = [fn |-> "format_srt_timestamp", seconds |-> t,
                  result |-> format_srt_timestamp(t)]
    /\ outcome' = "done" /\ error' = "none"
    /\ op' = "fn" /\ pc' = "end"
    /\ UNCHANGED fnVars /\ UNCHANGED runVars

\* Lists of (start_s, end_s, text) of up to MaxSegments + 1 entries.
SrtSegments ==
    { [i \in 1..n |-> [start_s |-> (i - 1) * 19996, end_s |-> i * 19996,
                       text |-> IF i = k THEN <<" ", " ">> ELSE <<"a", " ">>]] :
        n \in 0..(MaxSegments + 1), k \in 0..1 }

\* utils.py:115-122  the entries written, four lines each
write_srt(segments) ==
    [idx \in 1..Len(segments) |->
        [index |-> idx,
         start |-> format_srt_timestamp(segments[idx].start_s),
         end   |-> format_srt_timestamp(segments[idx].end_s),
         text  |-> IF Strip(segments[idx].text) = <<>>
                   THEN "[No text]" ELSE Strip(segments[idx].text)]]

CallWriteSrt ==
    /\ op = "idle"
    /\ \E segments \in SrtSegments :
         call' = [fn |-> "write_srt", segments |-> segments,
                  entries |-> write_srt(segments)]
    /\ outcome' = "done" /\ error' = "none"
    /\ op' = "fn" /\ pc' = "end"
    /\ UNCHANGED fnVars /\ UNCHANGED runVars

(***************************************************************************)
(* The voice list (tts_service.py:46-50, 74-96) on settings as they are    *)
(* written: a word with or without surrounding blanks and capitals.        *)
(***************************************************************************)
RawWords(words) == [ word : words, padded : BOOLEAN, capitals : BOOLEAN ]

\* str.strip().lower()
StripLower(raw) == [raw EXCEPT !.padded = FALSE, !.capitals = FALSE]

Plain(word) == [word |-> word, padded |-> FALSE, capitals |-> FALSE]

\* tts_service.py:46-50  set_source_gender_hint: the hint it stores
set_source_gender_hint(gender) ==
    LET normalized == StripLower(gender)
    IN IF normalized \notin {Plain("male"), Plain("female"), Plain("unknown")}
       THEN "unknown" ELSE normalized.word

\* tts_service.py:78  (cfg.tts_gender_mode or "auto").strip().lower()
gender_mode(raw) ==
    LET mode == StripLower(IF raw.word = "" /\ ~raw.padded THEN Plain("auto")
                           ELSE raw)
    IN mode.word

\* tts_service.py:77  (cfg.tts_voice or "").strip(); "" when nothing is left
ConfiguredVoices == {"", female_voice, male_voice, "custom"}

CallVoiceCandidates ==
    /\ op = "idle"
    /\ \E mode \in RawWords({"male", "female", "auto"}),
          gender \in RawWords({"male", "female", "unknown", "child", ""}),
          tts_voice \in ConfiguredVoices :
         call' = [fn |-> "_voice_candidates", mode |-> mode, gender |-> gender,
                  tts_voice |-> tts_voice,
                  result |-> voice_candidates(gender_mode(mode),
                                              set_source_gender_hint(gender),
                                              tts_voice)]
    /\ outcome' = "done" /\ error' = "none"
    /\ op' = "fn" /\ pc' = "end"
    /\ UNCHANGED fnVars /\ UNCHANGED runVars

(***************************************************************************)
(* The text of one chunk's segment (seamless_service.py:247-271, 319-353): *)
(* the hypothesis kept by the verification block, trimmed, with the        *)
(* terminology overrides applied, or the placeholder when nothing is left. *)
(* Texts are sequences of characters; an override table is a sequence of   *)
(* <<wrong, correct>> pairs in the dict's insertion order.                 *)
(***************************************************************************)
\* "[Untranslated chunk]"
Placeholder ==
    <<"[", "U", "n", "t", "r", "a", "n", "s", "l", "a", "t", "e", "d", " ",
      "c", "h", "u", "n", "k", "]">>

\* The keys and values of the "pashto_replace" object, as written.
RawTerms == {<<>>, <<" ">>, <<"a">>, <<"b">>, <<" ", "a", " ">>}

\* The override file: missing, unreadable as JSON, or an object whose
\* "pashto_replace" entries are the pairs.
TermFiles ==
    [state : {"missing", "invalid"}, pairs : {<<>>}]
    \cup [state : {"ok"},
          pairs : {<<>>} \cup [1..1 -> RawTerms \X RawTerms]
                         \cup [1..2 -> RawTerms \X RawTerms]]

\* The hypotheses the models return for a chunk.
HypTexts == {<<>>, <<" ">>, <<"a">>, <<"b">>, <<" ", "a", "b", " ">>}

\* clean[k2] = v2: a key met again keeps its place and takes the new value.
RECURSIVE DictSet(_, _, _)
DictSet(clean, k, v) ==
    IF clean = <<>> THEN <<<<k, v>>>>
    ELSE IF Head(clean)[1] = k THEN <<<<k, v>>>> \o Tail(clean)
    ELSE <<Head(clean)>> \o DictSet(Tail(clean), k, v)

RECURSIVE CleanPairsKeepsValuesAsWritten(_)
CleanPairsKeepsValuesAsWritten(pairs) ==
    IF pairs = <<>> THEN <<>>
    ELSE LET rest == CleanPairsKeepsValuesAsWritten(
                         SubSeq(pairs, 1, Len(pairs) - 1))
             k2 == Strip(pairs[Len(pairs)][1])
             v2 == pairs[Len(pairs)][2]
         IN IF k2 # <<>> /\ v2 # <<>> THEN DictSet(rest, k2, v2) ELSE rest

\* seamless_service.py:254-258  the entries kept from the file
RECURSIVE CleanPairs(_)
CleanPairs(pairs) ==
    IF pairs = <<>> THEN <<>>
    ELSE LET rest == CleanPairs(SubSeq(pairs, 1, Len(pairs) - 1))
             k2 == Strip(pairs[Len(pairs)][1])
             v2 == Strip(pairs[Len(pairs)][2])
         IN IF k2 # <<>> /\ v2 # <<>> THEN DictSet(rest, k2, v2) ELSE rest

\* seamless_service.py:247-265
load_term_replacements(file) ==
    IF file.state # "ok" THEN <<>> ELSE CleanPairs(file.pairs)

\* str.replace(wrong, correct) for a non-empty wrong: the occurrences are
\* taken from the left and do not overlap.
RECURSIVE Replace(_, _, _)
Replace(text, wrong, correct) ==
    IF Len(text) < Len(wrong) THEN text
    ELSE IF SubSeq(text, 1, Len(wrong)) = wrong
    THEN correct \o Replace(SubSeq(text, Len(wrong) + 1, Len(text)),
                            wrong, correct)
    ELSE <<Head(text)>> \o Replace(Tail(text), wrong, correct)

\* seamless_service.py:267-271
RECURSIVE apply_term_replacements(_, _)
apply_term_replacements(text, term_replacements) ==
    IF term_replacements = <<>> THEN text
    ELSE apply_term_replacements(
             Replace(text, Head(term_replacements)[1],
                     Head(term_replacements)[2]),
             Tail(term_replacements))

\* seamless_service.py:319-353  the text of the emitted segment
ChunkText(o, margin, direct_pashto, t2t_pashto, term_replacements) ==
    LET sel == SelectHypothesis(o, margin)
        chosen == apply_term_replacements(
                      Strip(IF sel.chosen = "t2t" THEN t2t_pashto
                                                  ELSE direct_pashto),
                      term_replacements)
    IN IF chosen = <<>> THEN Placeholder ELSE chosen

CallChunkText ==
    /\ op = "idle"
    /\ \E o \in {DefaultOracle,
                 [verify |-> "ok", score_direct |-> 50, score_t2t |-> 100],
                 [verify |-> "ok", score_direct |-> 100, score_t2t |-> 100]},
          direct_pashto \in HypTexts, t2t_pashto \in HypTexts,
          file \in TermFiles :
         call' = [fn |-> "chunk_text", o |-> o, direct_pashto |-> direct_pashto,
                  t2t_pashto |-> t2t_pashto, file |-> file,
                  result |-> ChunkText(o, 3, direct_pashto, t2t_pashto,
                                       load_term_replacements(file))]
    /\ outcome' = "done" /\ error' = "none"
    /\ op' = "fn" /\ pc' = "end"
    /\ UNCHANGED fnVars /\ UNCHANGED runVars

(***************************************************************************)
(* _detect_source_language (seamless_service.py:74-109, 214-245).  A       *)
(* decoded text is described by what the scores read from it: how many of  *)
(* its alphabetic characters are Latin, Arabic-script (U+0600..U+06FF) or  *)
(* other, and how many words it has.                                       *)
(***************************************************************************)
DecodedTexts ==
    { t \in [latin : 0..2, arabic : 0..2, other : 0..1, words : 0..2] :
        t.latin + t.arabic + t.other = 0 \/ t.words >= 1 }

AlphaCount(text) == text.latin + text.arabic + text.other

\* 1.0 + min(max(1, words), 12) / 24.0, in twenty-fourths
WordFactor(text) ==
    24 + (IF text.words < 1 THEN 1 ELSE IF text.words > 12 THEN 12
          ELSE text.words)

\* seamless_service.py:74-82
english_likeness(text) ==
    IF AlphaCount(text) = 0 THEN Frac(0, 1)
    ELSE Frac(text.latin * WordFactor(text), AlphaCount(text) * 24)

\* seamless_service.py:85-93
urdu_likeness(text) ==
    IF AlphaCount(text) = 0 THEN Frac(0, 1)
    ELSE Frac(text.arabic * WordFactor(text), AlphaCount(text) * 24)

\* seamless_service.py:96-101
latin_ratio(text) ==
    IF AlphaCount(text) = 0 THEN Frac(0, 1)
    ELSE Frac(text.latin, AlphaCount(text))

\* seamless_service.py:104-109
arabic_ratio(text) ==
    IF AlphaCount(text) = 0 THEN Frac(0, 1)
    ELSE Frac(text.arabic, AlphaCount(text))

\* x >= floor and x > y + 0.08
Dominates(x, y, floor) ==
    /\ FracLeq(floor, x)
    /\ 25 * x.n * y.d > 25 * y.n * x.d + 2 * x.d * y.d

select_language_latin_first(eng_text, urd_text) ==
    IF Dominates(latin_ratio(eng_text), latin_ratio(urd_text), Frac(45, 100))
    THEN "eng"
    ELSE IF Dominates(arabic_ratio(urd_text), arabic_ratio(eng_text),
                      Frac(25, 100))
    THEN "urd"
    ELSE IF ~FracLeq(urdu_likeness(urd_text), english_likeness(eng_text))
    THEN "urd" ELSE "eng"

\* seamless_service.py:226-238  the language chosen from the two decodes
select_language(eng_text, urd_text) ==
    IF Dominates(arabic_ratio(urd_text), arabic_ratio(eng_text), Frac(25, 100))
    THEN "urd"
    ELSE IF Dominates(latin_ratio(eng_text), latin_ratio(urd_text),
                      Frac(45, 100))
    THEN "eng"
    ELSE IF ~FracLeq(urdu_likeness(urd_text), english_likeness(eng_text))
    THEN "urd" ELSE "eng"

\* seamless_service.py:214-245  the language returned and the decodes run
detect_source_language(source_lang, samples, chunk_size, eng_text, urd_text) ==
    LET preferred == StripLower(IF source_lang.word = "" /\ ~source_lang.padded
                                THEN Plain("auto") ELSE source_lang)
        probe == IF samples < chunk_size THEN samples ELSE chunk_size
    IN IF preferred \in {Plain("eng"), Plain("urd")}
       THEN [lang |-> preferred.word, decoded |-> <<>>]
       ELSE IF probe < 1200
       THEN [lang |-> "eng", decoded |-> <<>>]
       ELSE [lang |-> select_language(eng_text, urd_text),
             decoded |-> <<"eng", "urd">>]

CallDetectSourceLanguage ==
    /\ op = "idle"
    /\ \E source_lang \in RawWords({"auto", "eng", "urd", ""}),
          samples \in {1199, 1200, 5 * SampleRate},
          chunk_seconds \in {0, 5},
          eng_text \in DecodedTexts, urd_text \in DecodedTexts :
         /\ (StripLower(source_lang).word \in {"eng", "urd"} \/ samples = 1199)
                => (eng_text = urd_text /\ AlphaCount(eng_text) = 0)
         /\ (source_lang.padded \/ source_lang.capitals \/ chunk_seconds = 5)
                => eng_text = urd_text
         /\ call' = [fn |-> "_detect_source_language",
                     source_lang |-> source_lang, samples |-> samples,
                     chunk_seconds |-> chunk_seconds,
                     eng_text |-> eng_text, urd_text |-> urd_text,
                     result |-> detect_source_language(
                                    source_lang, samples,
                                    ChunkSize(chunk_seconds),
                                    eng_text, urd_text)]
    /\ outcome' = "done" /\ error' = "none"
    /\ op' = "fn" /\ pc' = "end"
    /\ UNCHANGED fnVars /\ UNCHANGED runVars

CallSimilarity ==
    /\ op = "idle"
    /\ \E a \in Texts, b \in Texts :
         call' = [fn |-> "_similarity", a |-> a, b |-> b,
                  result |-> similarity(a, b)]
    /\ outcome' = "done" /\ error' = "none"
    /\ op' = "fn" /\ pc' = "end"
    /\ UNCHANGED fnVars /\ UNCHANGED runVars

Next ==
    \/ RequestCancel
    \/ CallRun
    \/ RunBegin
    \/ RunStage
    \/ CallTts
    \/ TtsBegin
    \/ TtsCheck
    \/ TtsEdge
    \/ TtsConvert
    \/ TtsEspeak
    \/ CallSynthesizeSegments
    \/ SegmentsSynthesize
    \/ SegmentsConcat
    \/ CallLipSync
    \/ LipSyncBegin
    \/ LipSyncAttempt
    \/ CallTranslate
    \/ TranslateBegin
    \/ TranslateChunk
    \/ TranslateFinish
    \/ CallCommand
    \/ CmdSpawn
    \/ ChildEmits
    \/ ChildExits
    \/ CmdPoll
    \/ CmdKill
    \/ CmdWait
    \/ CallBuildAtempoFilter
    \/ CallGateRule
    \/ CallGate
    \/ CallSimilarity
    \/ CallIsNearSilent
    \/ CallFormatSrtTimestamp
    \/ CallWriteSrt
    \/ CallVoiceCandidates
    \/ CallChunkText
    \/ CallDetectSourceLanguage
    \/ Reset

Spec == Init /\ [][Next]_vars

(***************************************************************************)
(* The GUI job queue (gui.py:380-411, 459-552).  The UI thread runs the    *)
(* handlers of the buttons one at a time; the worker thread runs           *)
(* _worker_main; their steps interleave.  What pipeline.run does for a job *)
(* is its result here.                                                     *)
(***************************************************************************)
MaxJobs == 2          \* videos of the longest modelled queue

pipelineVars == <<op, pc, cancel_event, env, outcome, error, observed, job_dir,
                  files, log_file, progress_log, stages, final_video, results,
                  lipsync_calls, mux_calls, tts, tr, proc, call>>

\* pipeline.run returns a result, raises PipelineCancelledError (only when
\* the job's token is set) or raises another exception.
PipelineRunEnds(token) ==
    {"done", "failed"} \cup (IF token = "set" THEN {"cancelled"} ELSE {})

\* gui.py:380-411  _queue_selected_videos with n new existing videos
QueueVideos ==
    /\ ~gui.dialog /\ Len(gui.jobs) < MaxJobs
    /\ \E n \in 1..(MaxJobs - Len(gui.jobs)) :
         gui' = [gui EXCEPT !.jobs = @ \o
                    [i \in 1..n |->
                        [status |-> "queued",
                         needs_confirmation |-> gui.worker_running]]]
    /\ UNCHANGED pipelineVars

StartClickChecksRunningFlag ==
    /\ ~gui.dialog
    /\ IF gui.worker_running
          \/ ~\E i \in 1..Len(gui.jobs) :
                 gui.jobs[i].status \in {"queued", "failed"}
       THEN UNCHANGED gui
       ELSE gui' = [gui EXCEPT !.queue_stop_requested = FALSE,
                               !.worker_running = TRUE,
                               !.alive = @ + 1, !.pc = "next", !.idx = 1,
                               !.confirmed = FALSE]
    /\ UNCHANGED pipelineVars

\* gui.py:459-471  _start_worker
StartClick ==
    /\ ~gui.dialog
    /\ IF gui.alive > 0
          \/ ~\E i \in 1..Len(gui.jobs) :
                 gui.jobs[i].status \in {"queued", "failed"}
       THEN UNCHANGED gui
       ELSE gui' = [gui EXCEPT !.queue_stop_requested = FALSE,
                               !.worker_running = TRUE,
                               !.alive = @ + 1, !.pc = "next", !.idx = 1,
                               !.confirmed = FALSE]
    /\ UNCHANGED pipelineVars

\* gui.py:473-477  _cancel_current up to the confirmation dialog
CancelClick ==
    /\ ~gui.dialog
    /\ IF ~gui.worker_running THEN UNCHANGED gui
       ELSE gui' = [gui EXCEPT !.dialog = TRUE]
    /\ UNCHANGED pipelineVars

\* gui.py:478-489  the user's answer and the rest of _cancel_current
CancelAnswer ==
    /\ gui.dialog
    /\ \E confirmed \in BOOLEAN :
         IF ~confirmed THEN gui' = [gui EXCEPT !.dialog = FALSE]
         ELSE gui' = [gui EXCEPT
                        !.dialog = FALSE,
                        !.queue_stop_requested = TRUE,
                        !.cancel_event = IF @ = "None" THEN "None" ELSE "set",
                        !.confirmed = @ \/ gui.worker_running]
    /\ UNCHANGED pipelineVars

\* gui.py:504-508  the next job of the loop, the stop flag and the statuses
\* that are passed over
WorkerNext ==
    /\ gui.pc = "next"
    /\ IF gui.idx > Len(gui.jobs) \/ gui.queue_stop_requested
       THEN gui' = [gui EXCEPT !.pc = "finish"]
       ELSE IF gui.jobs[gui.idx].status
                   \in {"done", "running", "cancelled", "skipped"}
       THEN gui' = [gui EXCEPT !.idx = @ + 1]
       ELSE IF gui.jobs[gui.idx].needs_confirmation
       THEN gui' = [gui EXCEPT !.pc = "confirm"]
       ELSE gui' = [gui EXCEPT !.pc = "setup"]
    /\ UNCHANGED pipelineVars

\* gui.py:509-521  "Start next video?"
WorkerConfirm ==
    /\ gui.pc = "confirm"
    /\ \E approved \in BOOLEAN :
         IF approved
         THEN gui' = [gui EXCEPT !.jobs[gui.idx].needs_confirmation = FALSE,
                                 !.pc = "setup"]
         ELSE gui' = [gui EXCEPT !.jobs[gui.idx].status = "skipped",
                                 !.idx = @ + 1, !.pc = "next"]
    /\ UNCHANGED pipelineVars

\* gui.py:522-530  a fresh token and pipeline, the job is running
WorkerStartsJob ==
    /\ gui.pc = "setup"
    /\ gui' = [gui EXCEPT !.cancel_event = "clear",
                          !.jobs[gui.idx].status = "running",
                          !.pc = "run"]
    /\ UNCHANGED pipelineVars

\* gui.py:530-549  run ends; the status it leaves and the finally block
WorkerJobEnds ==
    /\ gui.pc = "run"
    /\ \E ends \in PipelineRunEnds(gui.cancel_event) :
         gui' = [gui EXCEPT
                   !.jobs[gui.idx].status = ends,
                   !.queue_stop_requested = @ \/ ends = "cancelled",
                   !.cancel_event = "None",
                   !.idx = @ + 1, !.pc = "next"]
    /\ UNCHANGED pipelineVars

\* gui.py:551-552  after the loop
WorkerFinish ==
    /\ gui.pc = "finish"
    /\ gui' = [gui EXCEPT !.worker_running = FALSE, !.pc = "exit"]
    /\ UNCHANGED pipelineVars

\* _worker_main returns: the thread is no longer alive
WorkerExits ==
    /\ gui.pc = "exit"
    /\ gui' = [gui EXCEPT !.alive = @ - 1, !.pc = "none"]
    /\ UNCHANGED pipelineVars

GuiNext ==
    \/ QueueVideos
    \/ StartClick
    \/ CancelClick
    \/ CancelAnswer
    \/ WorkerNext
    \/ WorkerConfirm
    \/ WorkerStartsJob
    \/ WorkerJobEnds
    \/ WorkerFinish
    \/ WorkerExits

GuiSpec == Init /\ [][GuiNext]_vars

(***************************************************************************)
(* Properties.                                                             *)
(***************************************************************************)
RunEnded == op = "run" /\ outcome # "none"

\* Every collaborator call of the run succeeds on the given input and the
\* synthesized, duration-aligned audio is not near-silent.
CollaboratorsSucceed ==
    /\ env.exists /\ env.fail = "none" /\ env.chunks > 0
    /\ ~is_near_silent(env.synced_clip)

GateApproves == evaluate_lipsync_gate(env.face_ratio, env.speech_ratio).should_lipsync

C2_ObservedCancellationEndsCancelled ==
    (outcome # "none" /\ observed) => (outcome = "cancelled" /\ ~job_dir)

\* C3: when a state of run fails with an error other than cancellation, the
\* run ends failed, the job directory and every file written so far still
\* exist, and the failure message and the trace are the last two lines
\* appended to pipeline.log.
C3_FailedRunKeepsJobDirAndLogs ==
    [][ (op = "run" /\ outcome = "none" /\ outcome' = "failed" /\ stages' # <<>>)
          => /\ job_dir'
             /\ files \subseteq files'
             /\ "pipeline.log" \in files'
             /\ Len(log_file') >= Len(log_file) + 2
             /\ SubSeq(log_file', 1, Len(log_file)) = log_file
             /\ SubSeq(log_file', Len(log_file') - 1, Len(log_file'))
                    = <<"Pipeline failed", "Traceback">>
             /\ error' \notin {"none", "PipelineCancelledError"} ]_vars

C3_Witness ==
    /\ RunEnded /\ outcome = "failed" /\ stages # <<>>
    /\ job_dir /\ "pipeline.log" \in files

\* The orders in which run may start its states (pipeline.py:86-194).
CommonPath == <<"ExtractAudio", "ProbeDuration", "VoiceProfileHint", "Translate",
                "Synthesize", "AlignDuration", "GateDecision">>

LegalPaths == { CommonPath \o <<"LipSync", "Finalize">>,
                CommonPath \o <<"FallbackMux", "Finalize">>,
                CommonPath \o <<"LipSync", "FallbackMux", "Finalize">> }

IsPrefix(s, t) == Len(s) <= Len(t) /\ SubSeq(t, 1, Len(s)) = s

\* The positions that may follow a position whose code ran to its end.
Successors(p) ==
    CASE p = "ExtractAudio"            -> {"ProbeDuration"}
      [] p = "ProbeDuration"           -> {"VoiceProfileHint"}
      [] p = "VoiceProfileHint"        -> {"Translate"}
      [] p = "Translate"               -> {"Synthesize"}
      [] p = "Synthesize"              -> {"AlignDuration"}
      [] p = "AlignDuration"           -> {"GateDecision"}
      [] p = "GateDecision"            -> {"LipSync", "FallbackMux"}
      [] p = "LipSync"                 -> {"Finalize", "FallbackMuxAfterLipSync"}
      [] p = "FallbackMux"             -> {"Finalize"}
      [] p = "FallbackMuxAfterLipSync" -> {"Finalize"}
      [] p = "Finalize"                -> {"end"}

C5_EveryStateCheckedOnEntry ==
    (op = "run" /\ cancel_event) =>
        \A p \in RunStates : \A r \in StepOf(p) :
            ~r.entered /\ r.exc = "PipelineCancelledError"

\* C6: when the gate approves and the lip-sync call fails with an error that
\* is not a cancellation, the run goes on to FallbackMux instead of aborting,
\* and with a mux that succeeds it reaches Finalize with final_video set to
\* the fallback video.
C6_LipSyncFailureFallsBackToMux ==
    (op = "run" /\ ~cancel_event /\ env.fail = "none" /\ ~env.lipsync_ok) =>
        /\ \A r \in LipSyncStep :
               r.exc = "none" /\ r.next = "FallbackMuxAfterLipSync"
        /\ \A r \in FallbackMuxAfterLipSyncStep :
               /\ r.exc = "none" /\ r.mux = 1
               /\ r.video = "fallback" /\ r.next = "Finalize"

\* C7: when the gate refuses, the lip-sync backend is not invoked: the run
\* goes from GateDecision straight to FallbackMux, which runs the mux exactly
\* once and sets final_video to the fallback video.
C7_RefusedGateMuxesOnce ==
    (op = "run" /\ ~cancel_event /\ env.fail = "none" /\ ~GateApproves) =>
        /\ \A r \in GateDecisionStep :
               r.exc = "none" /\ r.next = "FallbackMux" /\ r.lipsync = 0
        /\ \A r \in FallbackMuxStep :
               /\ r.exc = "none" /\ r.lipsync = 0 /\ r.mux = 1
               /\ r.video = "fallback" /\ r.next = "Finalize"

\* C9: the values handed to the progress callback, across the states of run
\* and across the chunks of a translation of any length (more than 50 chunks
\* included), never decrease and all lie in [0,1].
C9_ProgressMonotoneInUnit ==
    /\ \A i \in 1..Len(progress_log) : FracInUnit(progress_log[i])
    /\ \A i \in 1..(Len(progress_log) - 1) :
           FracLeq(progress_log[i], progress_log[i + 1])

\* C10: when the input video exists, the token is never set and every
\* collaborator call succeeds with audible synthesized audio, run starts
\* every state from ExtractAudio on and ends Done with exactly one
\* PipelineResult; every run that has ended is in exactly one of Done,
\* Cancelled, Failed.
C10_SuccessfulRunEndsDone ==
    /\ RunEnded => outcome \in {"done", "cancelled", "failed"}
    /\ (RunEnded /\ CollaboratorsSucceed /\ env.lipsync_ok /\ ~cancel_event) =>
           /\ outcome = "done" /\ results = 1
           /\ stages \in LegalPaths

CmdEnded == op = "cmd" /\ outcome # "none"

\* C11 (as stated): run_command returns normally iff the child exits with
\* status zero and no cancellation was observed; a child that exits on its
\* own with a non-zero status always ends run_command with the command-failed
\* RuntimeError carrying the status and the command text, never with the
\* cancelled condition.
C11_NonZeroExitAlwaysCommandFailed ==
    CmdEnded =>
        /\ outcome = "done" <=>
               (proc.child = "exited" /\ env.exit_code = 0 /\ ~observed)
        /\ (proc.child = "exited" /\ env.exit_code # 0) =>
               /\ outcome = "failed" /\ error = "RuntimeError"
               /\ proc.message = <<env.exit_code, env.site>>

\* C11 (amended): as above, except that a child that exits on its own with a
\* non-zero status ends run_command with the cancelled condition when the
\* polling loop sees the token set before it has read the end of the child's
\* output; the cancelled condition is raised only when the token was seen.
C11_NonZeroExitCommandFailedUnlessObserved ==
    CmdEnded =>
        /\ outcome = "done" <=>
               (proc.child = "exited" /\ env.exit_code = 0 /\ ~observed)
        /\ (proc.child = "exited" /\ env.exit_code # 0 /\ ~observed) =>
               /\ outcome = "failed" /\ error = "RuntimeError"
               /\ proc.message = <<env.exit_code, env.site>>
        /\ outcome = "cancelled" <=> observed
        /\ error = "PipelineCancelledError" <=> observed

C11_Witness ==
    /\ CmdEnded /\ outcome = "failed" /\ error = "RuntimeError"
    /\ proc.child = "exited" /\ proc.message = <<1, env.site>>
    /\ cancel_event /\ PassesToken(env.site)

\* C12: when the token handed to run_command is seen set while the child is
\* still running, the polling loop has stopped, the child and every process
\* of its tree are killed, and run_command ends with PipelineCancelledError.
C12_CancelKillsProcessTree ==
    /\ (op = "cmd" /\ observed) => pc \in {"kill", "end"}
    /\ (CmdEnded /\ observed /\ proc.at_cancel = "running") =>
           /\ outcome = "cancelled" /\ error = "PipelineCancelledError"
           /\ proc.child # "running"
           /\ proc.subs # "running"

\* C13: at every place where the job runs an external program, an iteration
\* of the polling loop that finds the job's token set while the child is
\* running stops the loop and goes on to kill the child.
C13_EverySubprocessPollsToken ==
    [][ (op = "cmd" /\ pc = "poll" /\ cancel_event /\ proc.child = "running"
           /\ proc' # proc)
          => (proc'.child # "running" \/ pc' = "kill") ]_vars

FnEnded(fn) == op = "fn" /\ call.fn = fn

\* The number of leading factors of a chain that equal f.
RECURSIVE CountLeading(_, _)
CountLeading(chain, f) ==
    IF Len(chain) <= 1 \/ Head(chain) # f THEN 0
    ELSE 1 + CountLeading(Tail(chain), f)

\* How far the product of a chain's factors is from the tempo, and the
\* tolerance tol (in ten-millionths), both scaled by 2^halves: the factors
\* before the last are exactly 2 or exactly 1/2.
ChainOff(chain, tempo) ==
    Abs(10 * chain[Len(chain)] * Pow2(CountLeading(chain, Two))
            - tempo * Pow2(CountLeading(chain, Half)))

ChainShape(chain) ==
    /\ chain # <<>>
    /\ \A i \in 1..Len(chain) : chain[i] >= Half /\ chain[i] <= Two
    /\ \A i \in 1..(Len(chain) - 1) : chain[i] \in {Two, Half}
    /\ \A i, j \in 1..(Len(chain) - 1) : chain[i] = chain[j]

RejectsNonPositiveTempo ==
    /\ call.tempo <= 0 => (outcome = "failed" /\ error = "ValueError"
                             /\ call.factors = <<>>)
    /\ call.tempo > 0 => outcome = "done"
    /\ call.tempo = 32000000 => call.factors = <<Two, 1600000>>

\* C14 (as stated): for every tempo > 0 every emitted stage factor lies in
\* [0.5, 2.0] and the product of the emitted factors is within 1e-6 of the
\* tempo; 3.2 gives the chain [2.0, 1.6]; a tempo <= 0 is rejected.
C14_ChainProductWithinMillionth ==
    FnEnded("_build_atempo_filter") =>
        /\ RejectsNonPositiveTempo
        /\ call.tempo > 0 =>
               /\ ChainShape(call.factors)
               /\ ChainOff(call.factors, call.tempo)
                      <= 10 * Pow2(CountLeading(call.factors, Half))

\* C14 (amended): as above, but the product of the emitted factors is within
\* 0.5e-6 * 2^k of the tempo, k being the number of 2.0 stages (each factor
\* is printed with six decimals), and within 1e-6 only for tempo <= 4.
C14_ChainProductWithinRounding ==
    FnEnded("_build_atempo_filter") =>
        /\ RejectsNonPositiveTempo
        /\ call.tempo > 0 =>
               /\ ChainShape(call.factors)
               /\ ChainOff(call.factors, call.tempo)
                      <= 5 * Pow2(CountLeading(call.factors, Two))
               /\ call.tempo <= 4 * TenMillionth =>
                      ChainOff(call.factors, call.tempo)
                          <= 10 * Pow2(CountLeading(call.factors, Half))

C14_Witness ==
    /\ FnEnded("_build_atempo_filter") /\ call.tempo = 50000014
    /\ call.factors = <<Two, Two, 1250000>>

\* C15: for every pair of ratios the gate approves iff face_ratio >= 0.95
\* and speech_ratio >= 0.10; whenever face_ratio < 0.95 the refusal names the
\* face ratio, also when speech_ratio < 0.10 as well, and the refusal names
\* the speech ratio only when face_ratio >= 0.95.
C15_GateRuleInOrder ==
    FnEnded("gate_rule") =>
        /\ call.decision.should_lipsync <=>
               (call.face_ratio >= 95 /\ call.speech_ratio >= 10)
        /\ call.face_ratio < 95 => call.decision.reason = "face"
        /\ call.decision.reason = "speech" <=>
               (call.face_ratio >= 95 /\ call.speech_ratio < 10)
        /\ call.decision.reason = "passed" <=> call.decision.should_lipsync

C15_Witness ==
    /\ FnEnded("gate_rule") /\ call.face_ratio = 80 /\ call.speech_ratio = 5
    /\ call.decision = [should_lipsync |-> FALSE, reason |-> "face"]

GateReturned == FnEnded("evaluate_lipsync_gate") /\ outcome = "done"

\* The frames of a video that are sampled (every second one, from the first).
SampledFrames(frames) == {i \in 1..Len(frames) : (i - 1) % 2 = 0}

\* One box per sampled frame with a face, the box of a face of largest area.
OneLargestBoxPerFrame ==
    LET frames == call.input.frames
        faced  == {i \in SampledFrames(frames) : frames[i] # <<>>}
    IN  /\ Len(call.boxes) = Cardinality(faced)
        /\ \A i \in faced :
             LET k == Cardinality({j \in faced : j <= i})
             IN  \E f \in {frames[i][j] : j \in 1..Len(frames[i])} :
                   /\ call.boxes[k] = <<f.y, f.y + f.h, f.x, f.x + f.w>>
                   /\ \A j \in 1..Len(frames[i]) :
                        frames[i][j].w * frames[i][j].h <= f.w * f.h

\* Twice the median of coordinate c of the recorded boxes: twice the middle
\* value, or the sum of the two middle values.
TwiceMedian(c) ==
    LET vals == [i \in 1..Len(call.boxes) |-> call.boxes[i][c]]
        n == Len(vals)
    IN  KthSmallest(vals, (n + 1) \div 2) + KthSmallest(vals, (n + 2) \div 2)

\* C16 (as stated): in every decision dominant_box is None iff no box was
\* recorded; otherwise each coordinate equals the median of that coordinate
\* over the recorded boxes, one box (the largest face) being recorded per
\* sampled frame with a face.
C16_DominantBoxIsMedian ==
    GateReturned =>
        /\ OneLargestBoxPerFrame
        /\ call.decision.dominant_box = <<>> <=> call.boxes = <<>>
        /\ call.boxes # <<>> =>
               \A c \in 1..4 : 2 * call.decision.dominant_box[c] = TwiceMedian(c)

\* C16 (amended): as above, but each coordinate is the median with its
\* fraction cut off (the median of an even number of boxes is the mean of
\* the two middle values and may end in .5).
C16_DominantBoxIsTruncatedMedian ==
    GateReturned =>
        /\ OneLargestBoxPerFrame
        /\ call.decision.dominant_box = <<>> <=> call.boxes = <<>>
        /\ call.boxes # <<>> =>
               \A c \in 1..4 :
                   /\ 2 * call.decision.dominant_box[c] <= TwiceMedian(c)
                   /\ 2 * call.decision.dominant_box[c] + 2 > TwiceMedian(c)

C16_Witness ==
    /\ GateReturned /\ ~call.decision.should_lipsync
    /\ call.boxes = <<<<23, 71, 11, 71>>, <<20, 70, 14, 64>>>>
    /\ call.decision.dominant_box = <<21, 70, 12, 67>>

\* Marginal input: the video has no frame that can be read (it cannot be
\* opened, or it opens and holds no frame), no face is detected, or the audio
\* track is empty or silent; the detector itself is available.
MarginalGateInput ==
    /\ call.input.detector
    /\ \/ ~call.input.opens
       \/ call.input.frames = <<>>
       \/ \A i \in 1..Len(call.input.frames) : call.input.frames[i] = <<>>
       \/ call.input.audio.above = 0

\* C17: the gate never raises for marginal input: it returns a decision
\* that refuses and gives a reason.
C17_GateNeverRaisesOnMarginalInput ==
    (FnEnded("evaluate_lipsync_gate") /\ MarginalGateInput) =>
        /\ outcome = "done" /\ error = "none"
        /\ ~call.decision.should_lipsync
        /\ call.decision.reason \in {"face", "speech"}

(***************************************************************************)
(* Segments of translate_audio                                             *)
(***************************************************************************)
TranslateReturned == op = "translate" /\ pc = "end" /\ outcome = "done"

\* Both times are sample offsets over the sample rate, so they compare by
\* their numerators.
SecondsLess(a, b) == a.d = b.d /\ a.n < b.n

\* len(samples) / 16000.0
TotalDuration == Frac(env.samples, SampleRate)

\* C18: for a non-empty source and any chunk size, the segments built by
\* translate_audio each have start_s < end_s, start at 0, have strictly
\* increasing start_s, each end_s equal to the next start_s, and, once the
\* call has returned, a last end_s equal to the total source duration.
C18_SegmentsTileTheSource ==
    op = "translate" =>
        LET segs == tr.segments
        IN /\ \A i \in 1..Len(segs) : SecondsLess(segs[i].start_s, segs[i].end_s)
           /\ Len(segs) > 0 => segs[1].start_s = Frac(0, SampleRate)
           /\ \A i \in 1..(Len(segs) - 1) :
                  /\ SecondsLess(segs[i].start_s, segs[i + 1].start_s)
                  /\ segs[i].end_s = segs[i + 1].start_s
           /\ TranslateReturned =>
                  /\ Len(segs) > 0
                  /\ segs[Len(segs)].end_s = TotalDuration

C18_Witness ==
    /\ TranslateReturned
    /\ env.chunk_seconds = 5
    /\ Len(tr.segments) = 3
    /\ env.samples % ChunkSize(env.chunk_seconds) # 0

\* C19: for a chunk whose verification ran to its end, the text-route
\* hypothesis is kept exactly when its score is strictly above the direct
\* score plus the margin, the recorded score is that of the kept
\* hypothesis, the strategy tag names the choice, and chunks with the same
\* scores get the same choice.
C19_StrictMarginSelectsTextRoute ==
    op = "translate" =>
        LET segs == tr.segments
            Verified == { i \in 1..Len(segs) :
                            OracleOf(env.script, i).verify = "ok" }
        IN /\ \A i \in Verified :
                  LET o == OracleOf(env.script, i)
                  IN IF o.score_t2t > o.score_direct + env.margin
                     THEN /\ segs[i].text = "t2t"
                          /\ segs[i].verification_score = o.score_t2t
                          /\ segs[i].strategy = "s2tt+verify->t2tt"
                     ELSE /\ segs[i].text = "direct"
                          /\ segs[i].verification_score = o.score_direct
                          /\ segs[i].strategy = "s2tt+verify->s2tt"
           /\ \A i, j \in Verified :
                  OracleOf(env.script, i) = OracleOf(env.script, j) =>
                      /\ segs[i].text = segs[j].text
                      /\ segs[i].strategy = segs[j].strategy
                      /\ segs[i].verification_score = segs[j].verification_score

C19_Witness ==
    /\ TranslateReturned
    /\ Len(tr.segments) = 3
    /\ env.margin = 3
    /\ OracleOf(env.script, 1) =
           [verify |-> "ok", score_direct |-> 50, score_t2t |-> 53]
    /\ OracleOf(env.script, 2) =
           [verify |-> "ok", score_direct |-> 50, score_t2t |-> 54]
    /\ tr.segments[1].strategy = "s2tt+verify->s2tt"
    /\ tr.segments[2].strategy = "s2tt+verify->t2tt"
    /\ tr.segments[3].strategy = "s2tt+verify->s2tt"

C21_OneSegmentPerChunk ==
    op = "translate" =>
        /\ pc = "chunk" => Len(tr.segments) = tr.idx - 1
        /\ pc \in {"finish", "end"} /\ env.samples > 0 =>
               Len(tr.segments) = tr.chunk_count
        /\ Len(tr.log) = Len(tr.segments)

C21_Witness ==
    /\ TranslateReturned
    /\ tr.chunk_count = 2
    /\ tr.log = <<"skipped", "low confidence">>
    /\ Len(tr.segments) = 2

(***************************************************************************)
(* Speech synthesis of one segment                                         *)
(***************************************************************************)
TtsEnded == op = "tts" /\ outcome # "none"

\* Empty, or whitespace only.
Blank(text) == \A i \in 1..Len(text) : IsSpace(text[i])

\* C22: empty or whitespace-only text fails at once with the empty-text
\* error, for either backend: no voice or proxy candidate is probed, no
\* process is started, no attempt is made and no backoff is slept.
C22_EmptyTextFailsBeforeAnyBackend ==
    (op = "tts" /\ pc # "begin" /\ Blank(env.text)) =>
        /\ outcome = "failed" /\ error = "RuntimeError"
        /\ tts.last_exc = "Empty text passed to TTS"
        /\ ~tts.probed /\ ~tts.spawned
        /\ tts.made = 0 /\ tts.tried = <<>> /\ tts.delays = <<>>

C22_Witness ==
    /\ TtsEnded
    /\ env.text = <<" ", " ">>
    /\ env.backend = "espeak"
    /\ tts.last_exc = "Empty text passed to TTS"

EdgeAttempt == op = "tts" /\ pc # "begin" /\ env.backend = "edge_tts"
                   /\ ~Blank(env.text)

\* The size of the attempt matrix of the call in progress.
MatrixSize ==
    TtsRounds * Len(voice_candidates(env.mode, env.hint, env.tts_voice))
              * Len(edge_proxy_candidates(env.proxies))

\* C23: synthesis of a segment accepts the first attempt that passes
\* validation and makes no further one; an attempt starts only when all
\* earlier ones failed, a failed attempt alone does not end the call, and
\* the call fails exactly when all 4 x |voices| x |proxies| attempts have
\* failed; a segment whose synthesis failed ends synthesize_segments with
\* that failure and no later segment is synthesized.
C23_FatalOnlyWhenMatrixExhausted ==
    /\ EdgeAttempt =>
          /\ Len(tts.attempts) = MatrixSize
          /\ Len(tts.tried) = tts.made
          /\ tts.made <= Len(tts.delays) + 1
          /\ outcome = "done" => tts.made = Len(tts.delays) + 1
          /\ outcome = "failed" <=> Len(tts.delays) = MatrixSize
          /\ (outcome = "none" /\ pc = "check") => tts.made = Len(tts.delays)
    /\ (op = "segments" /\ call.failed_at > 0) =>
          /\ outcome = "failed"
          /\ call.synthesized = [i \in 1..call.failed_at |-> i]

C23_Witness ==
    /\ EdgeAttempt
    /\ outcome = "done"
    /\ Len(tts.delays) = 5
    /\ tts.made = 6
    /\ MatrixSize = 16

\* C24: a clip is near-silent exactly when its peak amplitude and its RMS
\* are both under their floors (0.003 and 0.0008, here in ten-thousandths);
\* a clip with only one of the two under its floor is not near-silent (an
\* empty clip has nothing above any floor and counts as near-silent).
C24_NearSilentNeedsBothBelowFloor ==
    FnEnded("_is_near_silent") =>
        (call.result <=>
            (call.clip.size = 0 \/ (call.clip.peak < 30 /\ call.clip.rms < 8)))

(***************************************************************************)
(* Lip sync                                                                *)
(***************************************************************************)
AssetsPresent == env.repo /\ env.checkpoint /\ env.face_detector

\* C25: run_lip_sync checks the model assets before anything else: with
\* the repository, the model checkpoint or the face-detection checkpoint
\* missing it fails at once with RuntimeError, the parameter sequence is
\* never built and no attempt is made.
C25_MissingAssetsFailBeforeAnyAttempt ==
    (op = "lipsync" /\ pc # "begin" /\ ~AssetsPresent) =>
        /\ outcome = "failed" /\ error = "RuntimeError"
        /\ call.attempts = <<>> /\ call.tried = <<>> /\ call.failures = <<>>
        /\ Len(call.message) = 1

C25_Witness ==
    /\ op = "lipsync" /\ pc = "end"
    /\ env.repo /\ env.checkpoint /\ ~env.face_detector
    /\ call.message = <<"Missing face detection checkpoint">>

\* C26: the parameter sets are tried in a fixed order: the dominant-box
\* crop first exactly when a box is supplied, then the three fallbacks,
\* none less permissive than the one before (bottom padding, resize
\* factor, smoothing off); an attempt starts only after all earlier ones
\* failed, the first one that completes ends the call with no further
\* attempt, and the aggregate error is raised only when every set has
\* failed and carries the failure of the last attempt.
C26_LipSyncAttemptsInOrder ==
    (op = "lipsync" /\ pc # "begin" /\ ensure_assets(env) = "none") =>
        LET n == Len(call.attempts)
            first == IF env.dominant_box # <<>> THEN 2 ELSE 1
        IN /\ n = (IF env.dominant_box # <<>> THEN 4 ELSE 3)
           /\ env.dominant_box # <<>> => call.attempts[1].box = env.dominant_box
           /\ \A i \in first..n : call.attempts[i].box = <<>>
           /\ \A i \in first..(n - 1) :
                  /\ call.attempts[i].pads[2] <= call.attempts[i + 1].pads[2]
                  /\ call.attempts[i].resize_factor
                         <= call.attempts[i + 1].resize_factor
                  /\ call.attempts[i].nosmooth => call.attempts[i + 1].nosmooth
                  /\ call.attempts[i] # call.attempts[i + 1]
           /\ call.tried = SubSeq(call.attempts, 1, Len(call.tried))
           /\ Len(call.tried) <= Len(call.failures) + 1
           /\ outcome = "done" => Len(call.tried) = Len(call.failures) + 1
           /\ outcome = "none" => Len(call.tried) = Len(call.failures)
           /\ outcome = "failed" <=> Len(call.failures) = n
           /\ outcome = "failed" =>
                  /\ error = "RuntimeError"
                  /\ call.message = <<"Wav2Lip failed after retries",
                                      call.failures[n]>>
                  /\ call.failures[n].attempt = n

C26_Witness ==
    /\ op = "lipsync" /\ outcome = "failed"
    /\ env.dominant_box # <<>>
    /\ Len(call.failures) = 4
    /\ call.failures[3].exc = "Command failed"
    /\ call.failures[4].exc = "OSError"

(***************************************************************************)
(* Subtitle timestamps                                                     *)
(***************************************************************************)
\* A stamp has the shape HH:MM:SS,mmm and denotes t (>= 0, in units of
\* 1e-4 s) rounded to the millisecond.
WellFormedStampOf(stamp, t) ==
    /\ FieldWidth(stamp.hour, 2) = 2
    /\ FieldWidth(stamp.minute, 2) = 2 /\ stamp.minute \in 0..59
    /\ FieldWidth(stamp.second, 2) = 2 /\ stamp.second \in 0..59
    /\ FieldWidth(stamp.millis, 3) = 3 /\ stamp.millis \in 0..999
    /\ ((stamp.hour * 60 + stamp.minute) * 60 + stamp.second) * 1000
           + stamp.millis
         = RoundHalfEven(t, TimeUnit \div 1000)

\* C27: for every time t >= 0, also when the fraction rounds up to a whole
\* second and when t is 24 hours or more, format_srt_timestamp(t) has the
\* shape HH:MM:SS,mmm with MM and SS in 00..59 and mmm in 000..999 and
\* denotes t rounded to the millisecond; write_srt numbers the entries
\* 1, 2, 3, ... in segment order.
C27_SrtTimestampWellFormed ==
    /\ (FnEnded("format_srt_timestamp") /\ call.seconds >= 0) =>
           WellFormedStampOf(call.result, call.seconds)
    /\ FnEnded("write_srt") =>
           /\ Len(call.entries) = Len(call.segments)
           /\ \A i \in 1..Len(call.entries) :
                  /\ call.entries[i].index = i
                  /\ WellFormedStampOf(call.entries[i].start,
                                       call.segments[i].start_s)

\* The states of run that come after Translate.
AfterTranslate ==
    {"Synthesize", "AlignDuration", "GateDecision", "LipSync",
     "FallbackMux", "FallbackMuxAfterLipSync", "Finalize"}

\* C28: input errors are fatal at once: with the input video missing, run
\* fails with FileNotFoundError before any state runs, with no job
\* directory, no file, no progress report and no external process; with
\* zero extracted samples translate_audio fails before any chunk is
\* translated, and a run whose source has no samples enters no state
\* after Translate.
C28_InputErrorsFailAtOnce ==
    /\ (op = "run" /\ pc # "begin" /\ ~env.exists) =>
           /\ outcome = "failed" /\ error = "FileNotFoundError"
           /\ ~job_dir /\ files = {} /\ log_file = <<>>
           /\ stages = <<>> /\ progress_log = <<>>
           /\ lipsync_calls = 0 /\ mux_calls = 0 /\ results = 0
    /\ (op = "run" /\ env.chunks = 0) =>
           \A i \in 1..Len(stages) : stages[i] \notin AfterTranslate
    /\ (op = "translate" /\ pc # "begin" /\ env.samples = 0) =>
           /\ outcome = "failed" /\ error = "RuntimeError"
           /\ tr.segments = <<>> /\ tr.idx = 0 /\ progress_log = <<>>

C28_Witness ==
    /\ RunEnded /\ ~env.exists /\ cancel_event
    /\ error = "FileNotFoundError"

\* The attempts of round r (0-based) among the first n made.
RoundOf(r, n, size) == { i \in 1..n : (i - 1) \div size = r }

\* C29: the attempt matrix is the voice x proxy cross product repeated
\* over exactly 4 rounds: attempts are made round by round, each (voice,
\* proxy) pair exactly once in a round and all of them before any attempt
\* of the next round, and the backoff slept after a failed attempt is
\* strictly longer in a later round than in an earlier one.
C29_MatrixRoundByRoundWithGrowingBackoff ==
    EdgeAttempt =>
        LET voices  == voice_candidates(env.mode, env.hint, env.tts_voice)
            proxies == edge_proxy_candidates(env.proxies)
            size    == Len(voices) * Len(proxies)
            n       == Len(tts.tried)
        IN /\ n <= TtsRounds * size
           /\ outcome = "failed" => n = TtsRounds * size
           /\ \A i \in 1..n :
                  /\ tts.tried[i].round_idx = (i - 1) \div size
                  /\ tts.tried[i].round_idx \in 0..(TtsRounds - 1)
           /\ \A r \in 0..(TtsRounds - 1) :
                \A v \in 1..Len(voices), p \in 1..Len(proxies) :
                  LET hits == { i \in RoundOf(r, n, size) :
                                  /\ tts.tried[i].voice = voices[v]
                                  /\ tts.tried[i].proxy = proxies[p] }
                  IN /\ Cardinality(hits) <= 1
                     /\ n >= (r + 1) * size => Cardinality(hits) = 1
           /\ Len(tts.delays) <= n
           /\ \A i, j \in 1..Len(tts.delays) :
                  tts.tried[i].round_idx < tts.tried[j].round_idx
                      => tts.delays[i] < tts.delays[j]

C29_Witness ==
    /\ EdgeAttempt /\ outcome = "failed"
    /\ Len(voice_candidates(env.mode, env.hint, env.tts_voice)) = 3
    /\ Len(edge_proxy_candidates(env.proxies)) = 2
    /\ Len(tts.tried) = 24
    /\ tts.delays[1] = 10 /\ tts.delays[24] = 31

\* C30: for every gender mode, source-gender hint (anything but male,
\* female and unknown counts as unknown) and configured voice, the voice
\* list is non-empty, has no duplicates and holds only the two built-in
\* voices and the configured one; it starts with the male built-in voice
\* in male mode and the female one in female mode whatever the hint, and
\* in auto mode with the built-in voice of the hinted gender, or with the
\* configured voice (the female built-in voice when none is configured)
\* when the hint is unknown.
C30_VoiceCandidatesFollowModeThenHint ==
    FnEnded("_voice_candidates") =>
        LET voices == call.result
            configured == IF call.tts_voice = "" THEN female_voice
                          ELSE call.tts_voice
            hinted == IF call.gender.word \in {"male", "female"}
                      THEN call.gender.word ELSE "unknown"
        IN /\ Len(voices) >= 1
           /\ \A i, j \in 1..Len(voices) : i # j => voices[i] # voices[j]
           /\ \A i \in 1..Len(voices) :
                  voices[i] \in {female_voice, male_voice, configured}
           /\ call.mode.word = "male" => voices[1] = male_voice
           /\ call.mode.word = "female" => voices[1] = female_voice
           /\ call.mode.word = "auto" =>
                  voices[1] = (IF hinted = "male" THEN male_voice
                               ELSE IF hinted = "female" THEN female_voice
                               ELSE configured)

C30_Witness ==
    /\ FnEnded("_voice_candidates")
    /\ call.mode = [word |-> "female", padded |-> TRUE, capitals |-> TRUE]
    /\ call.gender = Plain("male")
    /\ call.tts_voice = male_voice
    /\ call.result = <<female_voice, male_voice>>

\* C31: a source of N > 0 samples is cut into windows of exactly max(c, 4)
\* seconds for a configured length of c seconds, the last one possibly
\* shorter but never empty, which makes ceil(N / (max(c, 4) * 16000))
\* chunks; 42 seconds in 20-second chunks are [0,20), [20,40), [40,42).
C31_WindowsOfConfiguredLength ==
    (op = "translate" /\ pc # "begin" /\ env.samples > 0) =>
        LET window == (IF env.chunk_seconds >= 4 THEN env.chunk_seconds ELSE 4)
                          * 16000
            segs == tr.segments
            Length(i) == segs[i].end_s.n - segs[i].start_s.n
        IN /\ tr.chunk_count * window >= env.samples
           /\ (tr.chunk_count - 1) * window < env.samples
           /\ \A i \in 1..Len(segs) :
                  /\ segs[i].start_s = Frac((i - 1) * window, 16000)
                  /\ Length(i) > 0 /\ Length(i) <= window
                  /\ i < tr.chunk_count => Length(i) = window
           /\ (TranslateReturned /\ env.samples = 42 * 16000
                 /\ env.chunk_seconds = 20) =>
                  /\ Len(segs) = 3
                  /\ <<segs[1].start_s.n, segs[1].end_s.n>> = <<0, 20 * 16000>>
                  /\ <<segs[2].start_s.n, segs[2].end_s.n>>
                         = <<20 * 16000, 40 * 16000>>
                  /\ <<segs[3].start_s.n, segs[3].end_s.n>>
                         = <<40 * 16000, 42 * 16000>>

C31_Witness ==
    /\ TranslateReturned
    /\ env.samples = 42 * SampleRate /\ env.chunk_seconds = 20
    /\ Len(tr.segments) = 3
    /\ tr.segments[3].end_s = Frac(672000, SampleRate)

\* C32: the terminology overrides are applied to the hypothesis that was
\* selected, before the segment is emitted; the emitted text is never
\* empty (the placeholder stands in when trimming and replacement leave
\* nothing) and never makes the synthesizer fail on empty text.
C32_EmittedTextNeverEmpty ==
    FnEnded("chunk_text") =>
        LET kept == IF call.o.verify = "ok"
                        /\ call.o.score_t2t > call.o.score_direct + 3
                    THEN call.t2t_pashto ELSE call.direct_pashto
            fixed == apply_term_replacements(Strip(kept),
                         load_term_replacements(call.file))
        IN /\ call.result # <<>>
           /\ ~Blank(call.result)
           /\ CleanText(call.result) # <<>>
           /\ call.result = (IF fixed = <<>> THEN Placeholder ELSE fixed)

C32_Witness ==
    /\ FnEnded("chunk_text")
    /\ call.o.verify = "ok" /\ call.o.score_t2t = 100 /\ call.o.score_direct = 50
    /\ call.t2t_pashto = <<" ", "a", "b", " ">>
    /\ call.direct_pashto = <<" ">>
    /\ call.file.pairs = <<<<<<"a">>, <<" ">>>>, <<<<" ", "a", " ">>, <<"b">>>>>>
    /\ call.result = <<"b", "b">>

C32_PlaceholderWitness ==
    /\ FnEnded("chunk_text")
    /\ call.direct_pashto = <<" ">> /\ call.o.verify = "off"
    /\ call.result = Placeholder

\* C33: a source language named by the user is returned without decoding a
\* probe; in auto mode with a decoded probe the Arabic-script dominance of
\* the Urdu decode is tested first, then the Latin-script dominance of the
\* English decode, and only without either the higher likeness score
\* decides, a tie going to English; the result is always eng or urd.
C33_SourceLanguagePrecedence ==
    FnEnded("_detect_source_language") =>
        LET named == StripLower(call.source_lang).word
            e == call.eng_text
            u == call.urd_text
            ec == e.latin + e.arabic + e.other
            uc == u.latin + u.arabic + u.other
            \* ratios over a common denominator ec * uc * 100
            arabic_dominates ==
                /\ uc > 0 /\ 4 * u.arabic >= uc
                /\ IF ec = 0 THEN 100 * u.arabic > 8 * uc
                   ELSE 100 * u.arabic * ec > 100 * e.arabic * uc + 8 * ec * uc
            latin_dominates ==
                /\ ec > 0 /\ 100 * e.latin >= 45 * ec
                /\ IF uc = 0 THEN 100 * e.latin > 8 * ec
                   ELSE 100 * e.latin * uc > 100 * u.latin * ec + 8 * ec * uc
            urdu_scores_higher ==
                /\ uc > 0
                /\ IF ec = 0 THEN u.arabic > 0
                   ELSE u.arabic * (24 + u.words) * ec
                            > e.latin * (24 + e.words) * uc
        IN /\ call.result.lang \in {"eng", "urd"}
           /\ named \in {"eng", "urd"} =>
                  call.result = [lang |-> named, decoded |-> <<>>]
           /\ call.result.decoded # <<>> =>
                  /\ named \notin {"eng", "urd"}
                  /\ call.result.lang =
                         (IF arabic_dominates THEN "urd"
                          ELSE IF latin_dominates THEN "eng"
                          ELSE IF urdu_scores_higher THEN "urd" ELSE "eng")

\* Both script ratios dominate: the Arabic-script test, evaluated first,
\* decides.
C33_Witness ==
    /\ FnEnded("_detect_source_language")
    /\ call.source_lang.word = "auto"
    /\ call.eng_text = [latin |-> 2, arabic |-> 0, other |-> 0, words |-> 2]
    /\ call.urd_text = [latin |-> 0, arabic |-> 2, other |-> 0, words |-> 1]
    /\ call.result = [lang |-> "urd", decoded |-> <<"eng", "urd">>]

C33_TieWitness ==
    /\ FnEnded("_detect_source_language")
    /\ call.result.decoded # <<>>
    /\ call.eng_text = [latin |-> 1, arabic |-> 1, other |-> 0, words |-> 1]
    /\ call.urd_text = [latin |-> 1, arabic |-> 1, other |-> 0, words |-> 1]
    /\ call.result.lang = "eng"

\* C34: the segments are synthesized one at a time in sequence order, each
\* accepted clip is time-fit to its segment's span, and the concatenation
\* list holds exactly one fitted clip per segment, in order, once every
\* segment has been synthesized; a failing segment leaves no track.
C34_OneFittedClipPerSegmentInOrder ==
    op = "segments" =>
        /\ call.synthesized = [i \in 1..Len(call.synthesized) |-> i]
        /\ call.chunk_files = [i \in 1..Len(call.chunk_files) |-> i]
        /\ (call.failed_at # 0 /\ pc = "end") => outcome # "done"
        /\ (pc = "end" /\ call.failed_at = 0 /\ ~cancel_event) =>
               call.chunk_files = [i \in 1..env.segments |-> i]

\* The lines of the child's output that are not blank, without their
\* trailing blanks, in the order written.
RECURSIVE NonBlankLines(_)
NonBlankLines(written) ==
    IF written = <<>> THEN <<>>
    ELSE IF Blank(Head(written)) THEN NonBlankLines(Tail(written))
    ELSE <<RStrip(Head(written))>> \o NonBlankLines(Tail(written))

\* The number of lines of the child's output that are not empty.
RECURSIVE NonEmptyCount(_)
NonEmptyCount(written) ==
    IF written = <<>> THEN 0
    ELSE (IF Head(written) # <<>> THEN 1 ELSE 0) + NonEmptyCount(Tail(written))

CompletedWithoutCancellation ==
    /\ CmdEnded
    /\ \/ outcome = "done"
       \/ outcome = "failed" /\ error = "RuntimeError"

\* C35 as stated: when run_command returns normally or fails with
\* command-failed, every non-empty line the child wrote has been passed to
\* the logger.
C35_EveryNonEmptyLineLogged ==
    CompletedWithoutCancellation =>
        Len(proc.logged) = NonEmptyCount(proc.written)

\* C35: when run_command returns normally or fails with command-failed,
\* every line the child wrote that is not blank has been passed to the
\* logger, without its trailing blanks, exactly once and in the order
\* written, for every interleaving of the reader thread and the polling
\* loop; what is logged is at all times a prefix of that, and once the
\* child has exited every iteration of the polling loop takes an item from
\* the queue, which holds the end mark, so the loop ends.
C35_NonBlankLinesLoggedOnceInOrder ==
    /\ [](op = "cmd" =>
            LET due == NonBlankLines(proc.written)
            IN /\ Len(proc.logged) <= Len(due)
               /\ proc.logged = SubSeq(due, 1, Len(proc.logged))
               /\ CompletedWithoutCancellation => proc.logged = due
               /\ (pc = "poll" /\ proc.child = "exited") =>
                      \E i \in 1..Len(proc.queue) : proc.queue[i] = Sentinel
               /\ pc = "wait" => proc.queue = <<>> /\ proc.child = "exited")
    /\ [][(CmdPoll /\ proc.child = "exited")
              => Len(proc'.queue) = Len(proc.queue) - 1]_vars

C35_Witness ==
    /\ CompletedWithoutCancellation
    /\ proc.written = <<<<"1", " ">>, <<" ">>>>
    /\ proc.logged = <<<<"1">>>>

\* C36: once the token is set the synthesizer starts no new work unit: no
\* further attempt of the retry matrix passes its checkpoint, also after a
\* backoff sleep, and synthesize_segments starts no further segment.
C36_NoNewWorkUnitOnceTokenSet ==
    /\ [][(op = "tts" /\ op' = "tts" /\ env.backend = "edge_tts"
              /\ cancel_event) =>
              /\ tts'.made = tts.made
              /\ tts'.tried = tts.tried]_vars
    /\ [][(op = "segments" /\ op' = "segments" /\ cancel_event) =>
              call'.synthesized = call.synthesized]_vars

\* The token is seen at the checkpoint that follows a failed attempt and
\* its backoff sleep, with attempts of the matrix left.
C36_Witness ==
    /\ TtsEnded /\ outcome = "cancelled" /\ cancel_event
    /\ env.backend = "edge_tts"
    /\ tts.made >= 1 /\ Len(tts.delays) = tts.made
    /\ tts.made < Len(tts.attempts)

C36_SegmentsWitness ==
    /\ op = "segments" /\ pc = "end" /\ outcome = "cancelled" /\ cancel_event
    /\ call.synthesized = <<>> /\ env.segments = 2

\* C37: when the token is already set as run is called with an existing
\* input video, run raises PipelineCancelledError before the job directory
\* is made and before anything is started: no state is entered, no file
\* and no pipeline.log is written, and there is nothing to clean up.
C37_CancelledBeforeStartLeavesNothing ==
    [][(op = "run" /\ pc \in {"begin", "ExtractAudio"} /\ outcome = "none"
          /\ cancel_event /\ env.exists) =>
           /\ ~job_dir' /\ files' = {} /\ log_file' = <<>>
           /\ stages' = <<>> /\ progress_log' = <<>>
           /\ lipsync_calls' = 0 /\ mux_calls' = 0 /\ results' = 0
           /\ pc = "ExtractAudio" =>
                  (outcome' = "cancelled" /\ error' = "PipelineCancelledError")
           /\ pc = "begin" => (outcome' = "none" /\ pc' # "end")]_vars

C37_Witness ==
    /\ RunEnded /\ outcome = "cancelled" /\ error = "PipelineCancelledError"
    /\ env.exists /\ cancel_event /\ stages = <<>>
    /\ ~job_dir /\ files = {} /\ log_file = <<>>

Running == {i \in 1..Len(gui.jobs) : gui.jobs[i].status = "running"}

\* C38: once the user has confirmed the cancellation while the worker is
\* running, in that run of the worker no job becomes done, no further job
\* is started, and the job that is running ends cancelled, for every
\* interleaving of the UI thread and the worker thread.
C38_NothingStartsOrCompletesAfterCancel ==
    [][(gui.confirmed /\ gui'.confirmed) =>
          \A i \in 1..Len(gui.jobs) :
              /\ gui'.jobs[i].status = "done" => gui.jobs[i].status = "done"
              /\ gui'.jobs[i].status = "running"
                     => gui.jobs[i].status = "running"
              /\ (gui.jobs[i].status = "running"
                    /\ gui'.jobs[i].status # "running")
                     => gui'.jobs[i].status = "cancelled"]_vars

\* C39: at most one worker thread is alive and at most one job is running
\* at any time, whatever the order of Start clicks, queue additions and
\* worker steps; a job that is done, cancelled or skipped keeps that status
\* and only a queued or failed job is ever started.
C39_OneWorkerOneRunningJob ==
    /\ [](/\ gui.alive <= 1
          /\ Cardinality(Running) <= 1
          /\ gui.alive = 0 => Running = {})
    /\ [][\A i \in 1..Len(gui.jobs) :
              /\ gui.jobs[i].status \in {"done", "cancelled", "skipped"}
                     => gui'.jobs[i].status = gui.jobs[i].status
              /\ (gui'.jobs[i].status = "running"
                    /\ gui.jobs[i].status # "running")
                     => gui.jobs[i].status \in {"queued", "failed"}]_vars

\* A second run of the worker, started after a cancelled run, passes over
\* the cancelled job and runs the next one.
C39_Witness ==
    /\ Len(gui.jobs) = 2
    /\ gui.jobs[1].status = "cancelled" /\ gui.jobs[2].status = "running"
    /\ gui.alive = 1 /\ gui.worker_running

====
